---- MODULE Spec2Model ----
(***************************************************************************)
(* go-wifiportal: the network-manager access-point service                 *)
(* (pkg/network/apd_service.go, NewAPService) with its firewall and NAT    *)
(* rule lists (pkg/network/ufw.go, pkg/network/iptables.go).               *)
(*                                                                         *)
(* One action per exported call (Start, Stop, APConfig.Validate).  Each    *)
(* action is the whole call; the exit status of every external command a   *)
(* call runs is an input of the action.  Commands whose exit status the    *)
(* code only logs have no outcome input: both outcomes give the same       *)
(* state.                                                                  *)
(***************************************************************************)
EXTENDS Integers, Sequences, FiniteSets, TLC

VARIABLES
    running,            \* hostAPDService.running
    config,             \* hostAPDService.config
    dnsmasqConfigPath,  \* hostAPDService.dnsmasqConfigPath: 0 is "", n > 0 the n-th temp name
    dnsmasqCmd,         \* hostAPDService.dnsmasqCmd: [set, Process], Process 0 is nil
    profiles,           \* system: NetworkManager connection profiles that exist (by con-name)
    active,             \* system: connection profiles that are up
    files,              \* system: temp config files that exist
    procs,              \* system: child processes of the service that are alive
    lastOp,             \* the call that made this state: "none", "Start", "Stop", "Validate";
                        \* "StopWait" is a Stop that has not returned
    arg,                \* the config passed to that call
    ret,                \* the error that call returned
    log,                \* the external commands and file/process operations that call issued
    lastRun,            \* the step outcomes of the most recent Start that got past validation
    startedSinceStop,   \* a Start has returned nil and Stop has not been called since
    startCalled,        \* Start has been called on this instance
    prev,               \* the call before lastOp: which, and whether it issued anything
    inStart,            \* the goroutines inside Start, past its checks, that have not returned
    route,              \* system: what `ip route show default` prints, [err, fields]
    out,                \* the value the last builder, parser or manager call returned
    input,              \* what the last call outside the service was given
    hostapd             \* the service NewHostAPDService makes, the direct-daemon backend:
                        \* its fields, the daemons it launched that are alive, and
                        \* what its last call returned and issued

svc   == <<running, config, dnsmasqConfigPath, dnsmasqCmd>>
world == <<profiles, active, files, procs>>
call  == <<lastOp, arg, ret, log>>
hist  == <<lastRun, startedSinceStop, startCalled, prev>>
aux   == <<inStart, route, out, input, hostapd>>
vars  == <<running, config, dnsmasqConfigPath, dnsmasqCmd, profiles, active, files,
           procs, lastOp, arg, ret, log, lastRun, startedSinceStop, startCalled, prev,
           inStart, route, out, input, hostapd>>

----------------------------------------------------------------------------
(* Bounds *)

\* temp-file names the temp directory can hold at once
MaxTemp == 2
\* child processes that can be alive at once
MaxProcs == 2
\* goroutines that call the service at the same time
MaxGoroutines == 2
\* network interfaces of the host
MaxInterfaces == 3
\* lines of a scan output
MaxLines == 3
\* signal values of a scan line: -MaxDbm .. MaxDbm
MaxDbm == 100
\* active connections of the host
MaxActive == 2
\* the time a command runs, and the time to the end of a context, in ticks
MaxTime == 2

----------------------------------------------------------------------------
(* Errors: a base (what errors.Is matches) and the chain of wrapping messages *)

Nil == [base |-> "nil", chain |-> <<>>]

ErrInvalidAPConfig ==
    [base |-> "ErrInvalidAPConfig", chain |-> <<"invalid wireless wireless access point">>]

ErrServiceAlreadyRunning ==
    [base |-> "ErrServiceAlreadyRunning", chain |-> <<"hotspot service is already running">>]

\* the error of an external command, file or template operation that failed
ExecErr == [base |-> "exec", chain |-> <<"exit status 1">>]

Wrap(err, msg) == [base |-> err.base, chain |-> <<msg>> \o err.chain]

Is(err, target) == err.base = target.base

----------------------------------------------------------------------------
(* APConfig *)

ZeroConfig ==
    [Name |-> "", Interface |-> "", SSID |-> "", Password |-> "", CountryCode |-> "",
     Security |-> "", Gateway |-> "", DHCPRange |-> "", PortalPort |-> ""]

MinWPA2PasswordLen == 8

ValidateNoWpa2Length(c) ==
    IF Len(c.Name) = 0 THEN Wrap(ErrInvalidAPConfig, "name is required")
    ELSE IF Len(c.Interface) = 0 THEN Wrap(ErrInvalidAPConfig, "interface is required")
    ELSE IF Len(c.SSID) = 0 THEN Wrap(ErrInvalidAPConfig, "ssid is required")
    ELSE IF Len(c.CountryCode) = 0 THEN Wrap(ErrInvalidAPConfig, "country code is required")
    ELSE IF Len(c.Gateway) = 0 THEN Wrap(ErrInvalidAPConfig, "gateway is required")
    ELSE IF Len(c.DHCPRange) = 0 THEN Wrap(ErrInvalidAPConfig, "DHCPRange is required")
    ELSE IF c.Security # "open" /\ Len(c.Password) = 0
        THEN Wrap(ErrInvalidAPConfig, "password is required for secured networks")
    ELSE Nil

ValidateNoName(c) ==
    IF Len(c.Interface) = 0 THEN Wrap(ErrInvalidAPConfig, "interface is required")
    ELSE IF Len(c.SSID) = 0 THEN Wrap(ErrInvalidAPConfig, "ssid is required")
    ELSE IF Len(c.Gateway) = 0 THEN Wrap(ErrInvalidAPConfig, "gateway is required")
    ELSE IF Len(c.DHCPRange) = 0 THEN Wrap(ErrInvalidAPConfig, "DHCPRange is required")
    ELSE IF c.Security # "open" /\ Len(c.Password) = 0
        THEN Wrap(ErrInvalidAPConfig, "password is required for secured networks")
    ELSE IF c.Security = "wpa2" /\ Len(c.Password) < MinWPA2PasswordLen
        THEN Wrap(ErrInvalidAPConfig, "password must be at least 8 characters for WPA2")
    ELSE Nil

\* APConfig.Validate; Len is Go's len(): the length of the string in bytes
Validate(c) ==
    IF Len(c.Name) = 0 THEN Wrap(ErrInvalidAPConfig, "name is required")
    ELSE IF Len(c.Interface) = 0 THEN Wrap(ErrInvalidAPConfig, "interface is required")
    ELSE IF Len(c.SSID) = 0 THEN Wrap(ErrInvalidAPConfig, "ssid is required")
    ELSE IF Len(c.CountryCode) = 0 THEN Wrap(ErrInvalidAPConfig, "country code is required")
    ELSE IF Len(c.Gateway) = 0 THEN Wrap(ErrInvalidAPConfig, "gateway is required")
    ELSE IF Len(c.DHCPRange) = 0 THEN Wrap(ErrInvalidAPConfig, "DHCPRange is required")
    ELSE IF c.Security # "open" /\ Len(c.Password) = 0
        THEN Wrap(ErrInvalidAPConfig, "password is required for secured networks")
    ELSE IF c.Security = "wpa2" /\ Len(c.Password) < MinWPA2PasswordLen
        THEN Wrap(ErrInvalidAPConfig, "password must be at least 8 characters for WPA2")
    ELSE Nil

----------------------------------------------------------------------------
(* The configs the calls are given *)

\* the config of examples/ and of the portal command
CfgWpa2 ==
    [Name |-> "go-wifiportal", Interface |-> "wlan0", SSID |-> "GoWiFiPortal",
     Password |-> "12345678", CountryCode |-> "SE", Security |-> "wpa2",
     Gateway |-> "192.168.4.1", DHCPRange |-> "192.168.4.2,192.168.4.50",
     PortalPort |-> "8080"]

\* the end-to-end config of the specification: only these six fields are set
CfgE2E ==
    [Name |-> "", Interface |-> "wlan0", SSID |-> "Test", Password |-> "",
     CountryCode |-> "", Security |-> "open", Gateway |-> "192.168.4.1",
     DHCPRange |-> "192.168.4.2,192.168.4.50", PortalPort |-> "8080"]

CfgE2EShort == [CfgE2E EXCEPT !.Security = "wpa2", !.Password = "short"]

CfgOpen == [CfgE2E EXCEPT !.Name = "testing", !.CountryCode = "SE"]

CfgOpenShort == [CfgOpen EXCEPT !.Security = "wpa2", !.Password = "short"]

\* Security as the examples spell it: neither "open" nor "wpa2"
CfgUpper ==
    [CfgWpa2 EXCEPT !.Security = "WPA2", !.Password = "short", !.Interface = "wlan1",
                    !.PortalPort = "9090"]

StartConfigs == {CfgWpa2, CfgE2E, CfgE2EShort, CfgOpen, CfgOpenShort, CfgUpper}

Passwords == {"", "short", "1234567", "12345678"}
Securities == {"", "open", "wpa2", "WPA2"}

AllConfigs ==
    [Name : {"", "testing"}, Interface : {"", "wlan0"}, SSID : {"", "Test"},
     Password : Passwords, CountryCode : {"", "SE"}, Security : Securities,
     Gateway : {"", "192.168.4.1"}, DHCPRange : {"", "192.168.4.2,192.168.4.50"},
     PortalPort : {"", "8080"}]

----------------------------------------------------------------------------
(* Firewall (ufw) rules *)

DirectionString(d) ==
    CASE d = "INCOMING" -> "in"
      [] d = "OUTGOING" -> "out"
      [] d = "BOTH" -> "in out"
      [] OTHER -> ""

ProtocolToString(p) ==
    CASE p = "TCP" -> "tcp"
      [] p = "UDP" -> "udp"
      [] p = "ANY" -> "any"
      [] OTHER -> "any"

ToArgs(r, iFace) ==
    <<"allow", DirectionString(r.Direction), "on", iFace, "to", "any", "port", r.Port,
      "proto", ProtocolToString(r.Protocol)>>

\* the rule list of the earlier ufw.go: the portal rule is on port 80
GetRequiredFirewallRulesPort80(iFace, portalPort) ==
    << [Direction |-> "INCOMING", Interface |-> iFace, Port |-> "67", Protocol |-> "UDP"],
       [Direction |-> "OUTGOING", Interface |-> iFace, Port |-> "68", Protocol |-> "UDP"],
       [Direction |-> "INCOMING", Interface |-> iFace, Port |-> "80", Protocol |-> "TCP"],
       [Direction |-> "INCOMING", Interface |-> iFace, Port |-> "53", Protocol |-> "UDP"],
       [Direction |-> "INCOMING", Interface |-> iFace, Port |-> "53", Protocol |-> "TCP"] >>

GetRequiredFirewallRules(iFace, portalPort) ==
    << [Direction |-> "INCOMING", Interface |-> iFace, Port |-> "67", Protocol |-> "UDP"],
       [Direction |-> "OUTGOING", Interface |-> iFace, Port |-> "68", Protocol |-> "UDP"],
       [Direction |-> "INCOMING", Interface |-> iFace, Port |-> "53", Protocol |-> "UDP"],
       [Direction |-> "INCOMING", Interface |-> iFace, Port |-> "53", Protocol |-> "TCP"],
       [Direction |-> "INCOMING", Interface |-> iFace, Port |-> portalPort,
        Protocol |-> "TCP"] >>

(* NAT (iptables) rules: a rule is its argument vector *)

CreateIPTablesRules(iFace, portalPort) ==
    << <<"-t", "nat", "-A", "PREROUTING", "-i", iFace, "-p", "tcp", "--dport", "80",
         "-j", "REDIRECT", "--to-ports", portalPort>>,
       <<"-A", "INPUT", "-i", iFace, "-p", "tcp", "--dport", portalPort, "-j", "ACCEPT">>,
       <<"-A", "INPUT", "-i", iFace, "-p", "udp", "--dport", "67", "-j", "ACCEPT">>,
       <<"-A", "INPUT", "-i", iFace, "-p", "udp", "--dport", "53", "-j", "ACCEPT">>,
       <<"-A", "INPUT", "-i", iFace, "-p", "tcp", "--dport", "53", "-j", "ACCEPT">> >>

CleanupIPTablesRules(iFace, portalPort) ==
    << <<"-t", "nat", "-D", "PREROUTING", "-i", iFace, "-p", "tcp", "--dport", "80",
         "-j", "REDIRECT", "--to-ports", portalPort>>,
       <<"-D", "INPUT", "-i", iFace, "-p", "tcp", "--dport", portalPort, "-j", "ACCEPT">>,
       <<"-D", "INPUT", "-i", iFace, "-p", "udp", "--dport", "67", "-j", "ACCEPT">>,
       <<"-D", "INPUT", "-i", iFace, "-p", "udp", "--dport", "53", "-j", "ACCEPT">>,
       <<"-D", "INPUT", "-i", iFace, "-p", "tcp", "--dport", "53", "-j", "ACCEPT">> >>

----------------------------------------------------------------------------
(* NAT rules of the later iptables.go, which adds forwarding and a masquerade
   rule on the default-route interface *)

\* `ip route show default`: the command's error, or the fields of its output
RouteEth ==
    [err |-> FALSE,
     fields |-> <<"default", "via", "192.168.1.1", "dev", "eth1", "proto", "dhcp">>]

RouteWlan == [err |-> FALSE, fields |-> <<"default", "via", "10.0.0.1", "dev", "wlan1">>]

\* the command fails
RouteErr == [err |-> TRUE, fields |-> <<>>]

\* no default route: no output
RouteNone == [err |-> FALSE, fields |-> <<>>]

\* an output that ends in "dev"
RouteNoName == [err |-> FALSE, fields |-> <<"default", "dev">>]

Routes == {RouteEth, RouteWlan, RouteErr, RouteNone, RouteNoName}

\* getDefaultInterface: the field after the first "dev" that has one, else "eth0"
getDefaultInterface ==
    IF route.err THEN "eth0"
    ELSE LET parts == route.fields
             hits == {i \in 1..Len(parts) : parts[i] = "dev" /\ i + 1 <= Len(parts)}
         IN  IF hits = {} THEN "eth0"
             ELSE parts[(CHOOSE i \in hits : \A j \in hits : i <= j) + 1]

CreateIPTablesRules005(iFace, portalPort) ==
    LET defaultIface == getDefaultInterface
    IN  << <<"-P", "FORWARD", "ACCEPT">>,
           <<"-t", "nat", "-A", "PREROUTING", "-i", iFace, "-p", "tcp", "--dport", "80",
             "-j", "REDIRECT", "--to-ports", portalPort>>,
           <<"-A", "INPUT", "-i", iFace, "-p", "tcp", "--dport", portalPort, "-j", "ACCEPT">>,
           <<"-A", "INPUT", "-i", iFace, "-p", "udp", "--dport", "67", "-j", "ACCEPT">>,
           <<"-A", "INPUT", "-i", iFace, "-p", "udp", "--dport", "53", "-j", "ACCEPT">>,
           <<"-A", "INPUT", "-i", iFace, "-p", "tcp", "--dport", "53", "-j", "ACCEPT">>,
           <<"-A", "FORWARD", "-i", iFace, "-j", "ACCEPT">>,
           <<"-A", "FORWARD", "-o", iFace, "-m", "state", "--state", "RELATED,ESTABLISHED",
             "-j", "ACCEPT">>,
           <<"-t", "nat", "-A", "POSTROUTING", "-o", defaultIface, "-j", "MASQUERADE">> >>

CleanupIPTablesRules005(iFace, portalPort) ==
    LET defaultIface == getDefaultInterface
    IN  << <<"-t", "nat", "-D", "PREROUTING", "-i", iFace, "-p", "tcp", "--dport", "80",
             "-j", "REDIRECT", "--to-ports", portalPort>>,
           <<"-D", "INPUT", "-i", iFace, "-p", "tcp", "--dport", portalPort, "-j", "ACCEPT">>,
           <<"-D", "INPUT", "-i", iFace, "-p", "udp", "--dport", "67", "-j", "ACCEPT">>,
           <<"-D", "INPUT", "-i", iFace, "-p", "udp", "--dport", "53", "-j", "ACCEPT">>,
           <<"-D", "INPUT", "-i", iFace, "-p", "tcp", "--dport", "53", "-j", "ACCEPT">>,
           <<"-D", "FORWARD", "-i", iFace, "-j", "ACCEPT">>,
           <<"-D", "FORWARD", "-o", iFace, "-m", "state", "--state", "RELATED,ESTABLISHED",
             "-j", "ACCEPT">>,
           <<"-t", "nat", "-D", "POSTROUTING", "-o", defaultIface, "-j", "MASQUERADE">> >>

----------------------------------------------------------------------------
(* What a call issues: an external command (argv), or an operation on a temp
   file or a child process (ref names the file or the process) *)

Exec(argv) == [kind |-> "exec", argv |-> argv, ref |-> 0]
ExecOn(argv, path) == [kind |-> "exec", argv |-> argv, ref |-> path]
FileOp(op, path) == [kind |-> "file", argv |-> <<op>>, ref |-> path]
ProcOp(op, pid) == [kind |-> "proc", argv |-> <<op>>, ref |-> pid]

\* FireWallRule.Apply
UfwApply(r, iFace) == Exec(<<"sudo", "ufw">> \o ToArgs(r, iFace))

\* IPTablesRule.Apply
IPTablesApply(args) == Exec(<<"sudo", "iptables-legacy">> \o args)

NilCmd == [set |-> FALSE, Process |-> 0]

\* os.CreateTemp's name: one no existing file has
FreeTemp == {n \in 1..MaxTemp : n \notin files}
FreshTemp == CHOOSE n \in FreeTemp : \A m \in FreeTemp : n <= m

FreePid == {n \in 1..MaxProcs : n \notin procs}
FreshPid == CHOOSE n \in FreePid : \A m \in FreePid : n <= m

----------------------------------------------------------------------------
(* The steps of Start.  fp is the operation of this Start that fails (its
   exit status, or the error of the file or template operation), "none" when
   none does; uf and nf are the firewall and NAT rules whose application
   fails. *)

StartFailPoints == {"managed", "add", "up", "parse", "temp", "execute", "launch", "none"}

UfwIdx == 1..5
NatIdx == 1..5

\* prepareInterface: only `nmcli device set managed yes` can fail the step
prepareInterface(cfg, fp) ==
    LET stop == Exec(<<"systemctl", "stop", "dnsmasq">>)
        managed == Exec(<<"nmcli", "device", "set", cfg.Interface, "managed", "yes">>)
        disconnect == Exec(<<"nmcli", "device", "disconnect", cfg.Interface>>)
    IN  IF fp = "managed"
        THEN [err |-> Wrap(ExecErr, "failed to set interface to managed mode"),
              log |-> <<stop, managed>>]
        ELSE [err |-> Nil, log |-> <<stop, managed, disconnect>>]

WifiSecArgs(password) ==
    <<"wifi-sec.key-mgmt", "wpa-psk", "wifi-sec.proto", "rsn", "wifi-sec.pairwise", "ccmp",
      "wifi-sec.group", "ccmp", "wifi-sec.psk", password>>

\* the argument vector of `nmcli connection add`
HotspotArgs(cfg) ==
    <<"connection", "add", "type", "wifi", "ifname", cfg.Interface, "con-name", cfg.Name,
      "autoconnect", "yes", "wifi.mode", "ap", "wifi.ssid", cfg.SSID,
      "ipv4.method", "manual", "ipv4.addresses", <<cfg.Gateway, "/24">> >>
    \o (IF cfg.Security = "wpa2" /\ cfg.Password # "" THEN WifiSecArgs(cfg.Password)
        ELSE IF cfg.Password # "" THEN WifiSecArgs(cfg.Password)
        ELSE <<>>)

\* the argument vector of the later apd_service.go, which has a branch for "open"
HotspotArgs004(cfg) ==
    <<"connection", "add", "type", "wifi", "ifname", cfg.Interface, "con-name", cfg.Name,
      "autoconnect", "yes", "wifi.mode", "ap", "wifi.ssid", cfg.SSID,
      "ipv4.method", "manual", "ipv4.addresses", <<cfg.Gateway, "/24">> >>
    \o (IF cfg.Security = "open" THEN <<>>
        ELSE IF cfg.Security = "wpa2" /\ cfg.Password # "" THEN WifiSecArgs(cfg.Password)
        ELSE IF cfg.Password # "" THEN WifiSecArgs(cfg.Password)
        ELSE <<>>)

\* createHotspot: connection add, then connection up
createHotspot(cfg, fp) ==
    LET add == Exec(<<"nmcli">> \o HotspotArgs(cfg))
        up == Exec(<<"nmcli", "connection", "up", cfg.Name>>)
    IN  IF fp = "add"
        THEN [err |-> Wrap(ExecErr, "nmcli output"), log |-> <<add>>,
              added |-> FALSE, up |-> FALSE]
        ELSE IF fp = "up"
        THEN [err |-> Wrap(ExecErr, "failed to activate hotspot"), log |-> <<add, up>>,
              added |-> TRUE, up |-> FALSE]
        ELSE [err |-> Nil, log |-> <<add, up>>, added |-> TRUE, up |-> TRUE]

\* a hostapd-backend style configureNetwork: the first rule that fails ends the step
configureNetworkFatal(cfg, uf, nf) ==
    LET rules == GetRequiredFirewallRules(cfg.Interface, cfg.PortalPort)
        ipt == CreateIPTablesRules(cfg.Interface, cfg.PortalPort)
        all == [i \in 1..Len(rules) |-> UfwApply(rules[i], cfg.Interface)]
               \o [i \in 1..Len(ipt) |-> IPTablesApply(ipt[i])]
        bad == {i \in 1..Len(rules) : i \in uf}
               \cup {Len(rules) + i : i \in {j \in 1..Len(ipt) : j \in nf}}
        first == CHOOSE i \in bad : \A j \in bad : i <= j
    IN  IF bad = {}
        THEN [err |-> Nil, log |-> all, ufwFailed |-> 0, natFailed |-> 0]
        ELSE [err |-> Wrap(ExecErr, "failed to apply firewall rule"),
              log |-> SubSeq(all, 1, first),
              ufwFailed |-> Cardinality({i \in 1..Len(rules) : i \in uf /\ i <= first}),
              natFailed |-> Cardinality({i \in 1..Len(ipt) :
                                            i \in nf /\ Len(rules) + i <= first})]

\* configureNetwork: every rule of both lists is applied; a failure is only logged
configureNetwork(cfg, uf, nf) ==
    LET rules == GetRequiredFirewallRules(cfg.Interface, cfg.PortalPort)
        ipt == CreateIPTablesRules(cfg.Interface, cfg.PortalPort)
    IN  [err |-> Nil,
         log |-> [i \in 1..Len(rules) |-> UfwApply(rules[i], cfg.Interface)]
                 \o [i \in 1..Len(ipt) |-> IPTablesApply(ipt[i])],
         ufwFailed |-> Cardinality({i \in 1..Len(rules) : i \in uf}),
         natFailed |-> Cardinality({i \in 1..Len(ipt) : i \in nf})]

\* startDNSMasq: created is the temp file it created (0: none), path and cmd
\* the fields it leaves in the service, pid the child it launched (0: none)
startDNSMasq(cfg, fp) ==
    LET stop == Exec(<<"sudo", "systemctl", "stop", "dnsmasq">>)
        f == FreshTemp
        create == FileOp("os.CreateTemp", f)
        launch == ExecOn(<<"sudo", "dnsmasq", "-C", "dnsmasqConfigPath",
                           "--keep-in-foreground">>, f)
    IN  IF fp = "parse"
        THEN [err |-> Wrap(ExecErr, "failed to parse dnsmasq template"), log |-> <<stop>>,
              created |-> 0, path |-> dnsmasqConfigPath, cmd |-> dnsmasqCmd, pid |-> 0]
        ELSE IF fp = "temp" \/ FreeTemp = {}
        THEN [err |-> Wrap(ExecErr, "failed to create dnsmasq config file"),
              log |-> <<stop>>,
              created |-> 0, path |-> dnsmasqConfigPath, cmd |-> dnsmasqCmd, pid |-> 0]
        ELSE IF fp = "execute"
        THEN [err |-> Wrap(ExecErr, "failed to execute dnsmasq template"),
              log |-> <<stop, create>>,
              created |-> f, path |-> dnsmasqConfigPath, cmd |-> dnsmasqCmd, pid |-> 0]
        ELSE IF fp = "launch" \/ FreePid = {}
        THEN [err |-> Wrap(ExecErr, "failed to start dnsmasq"),
              log |-> <<stop, create, launch>>,
              created |-> f, path |-> f, cmd |-> [set |-> TRUE, Process |-> 0], pid |-> 0]
        ELSE [err |-> Nil, log |-> <<stop, create, launch>>,
              created |-> f, path |-> f, cmd |-> [set |-> TRUE, Process |-> FreshPid],
              pid |-> FreshPid]

----------------------------------------------------------------------------
(* Start *)

NoRun ==
    [prepare |-> "skipped", hotspot |-> "skipped", network |-> "skipped",
     dnsmasq |-> "skipped", ufwFailed |-> 0, natFailed |-> 0]

StepResult(r) == IF r.err = Nil THEN "ok" ELSE "fail"

\* a Start that does not look at the running flag
StartRejectedNever(isRunning) == FALSE

\* Start's first check: `if h.running { return ErrServiceAlreadyRunning }`
StartRejected(isRunning) == isRunning

\* a Start that sets the running flag before it launches dnsmasq
StartCompletesEarly(p, h, n, d) == p.err = Nil /\ h.err = Nil /\ n.err = Nil

\* Start reaches `h.running = true` only past the four checked steps
StartCompletes(p, h, n, d) == p.err = Nil /\ h.err = Nil /\ n.err = Nil /\ d.err = Nil

\* a Start that goes on after a step that failed
StepFailedNever(r) == FALSE

\* `if err := h.step(); err != nil { return ... }`
StepFailed(r) == r.err # Nil

\* the service and the system as a call finds them
StartBase ==
    [running |-> running, config |-> config, path |-> dnsmasqConfigPath,
     cmd |-> dnsmasqCmd, profiles |-> profiles, active |-> active,
     files |-> files, procs |-> procs, lastRun |-> lastRun,
     ret |-> Nil, log |-> <<>>]

\* Start from `h.config = config` to its return: the state it leaves and what
\* it returns, as one record
StartSteps(cfg, fp, uf, nf) ==
    LET same == StartBase
        p == prepareInterface(cfg, fp)
        h == createHotspot(cfg, fp)
        n == configureNetwork(cfg, uf, nf)
        d == startDNSMasq(cfg, fp)
        withP == [same EXCEPT !.config = cfg, !.log = p.log,
                              !.lastRun = [NoRun EXCEPT !.prepare = StepResult(p)]]
        withH == [withP EXCEPT
                    !.log = @ \o h.log,
                    !.profiles = IF h.added THEN @ \cup {cfg.Name} ELSE @,
                    !.active = IF h.up THEN @ \cup {cfg.Name} ELSE @,
                    !.lastRun = [@ EXCEPT !.hotspot = StepResult(h)]]
        withN == [withH EXCEPT
                    !.log = @ \o n.log,
                    !.lastRun = [@ EXCEPT !.network = StepResult(n),
                                          !.ufwFailed = n.ufwFailed,
                                          !.natFailed = n.natFailed]]
        withD == [withN EXCEPT
                    !.log = @ \o d.log,
                    !.path = d.path,
                    !.cmd = d.cmd,
                    !.files = IF d.created # 0 THEN @ \cup {d.created} ELSE @,
                    !.procs = IF d.pid # 0 THEN @ \cup {d.pid} ELSE @,
                    !.lastRun = [@ EXCEPT !.dnsmasq = StepResult(d)]]
    IN  IF StepFailed(p)
            THEN [withP EXCEPT !.ret = Wrap(p.err, "failed to prepare interface")]
        ELSE IF StepFailed(h)
            THEN [withH EXCEPT !.ret = Wrap(h.err, "failed to create NetworkManager hotspot")]
        ELSE IF StepFailed(n)
            THEN [withN EXCEPT !.ret = Wrap(n.err, "failed to configure network")]
        ELSE IF ~StartCompletes(p, h, n, d)
            THEN [withD EXCEPT !.ret = Wrap(d.err, "failed to start dnsmasq")]
        ELSE [withD EXCEPT !.running = TRUE]

\* a Start that stores its config before its two checks
ConfigOfRejectedStored(cfg, held) == cfg

\* a Start that returns at one of its two checks has not reached
\* `h.config = config`: the service keeps the config it held
ConfigOfRejected(cfg, held) == held

\* The state Start(cfg) leaves and what it returns, as one record
StartResult(cfg, fp, uf, nf) ==
    IF StartRejected(running)
        THEN [StartBase EXCEPT !.ret = ErrServiceAlreadyRunning,
                               !.config = ConfigOfRejected(cfg, config)]
    ELSE IF Validate(cfg) # Nil
        THEN [StartBase EXCEPT !.ret = Wrap(Validate(cfg), "invalid access point configuration"),
                               !.config = ConfigOfRejected(cfg, config)]
    ELSE StartSteps(cfg, fp, uf, nf)

Start(cfg, fp, uf, nf) ==
    \E r \in {StartResult(cfg, fp, uf, nf)} :
    /\ running' = r.running
    /\ config' = r.config
    /\ dnsmasqConfigPath' = r.path
    /\ dnsmasqCmd' = r.cmd
    /\ profiles' = r.profiles
    /\ active' = r.active
    /\ files' = r.files
    /\ procs' = r.procs
    /\ lastRun' = r.lastRun
    /\ startedSinceStop' = (startedSinceStop \/ (r.ret = Nil))
    /\ startCalled' = TRUE
    /\ prev' = [op |-> lastOp, acted |-> log # <<>>]
    /\ lastOp' = "Start"
    /\ arg' = cfg
    /\ ret' = r.ret
    /\ log' = r.log
    /\ UNCHANGED aux

----------------------------------------------------------------------------
(* Stop.  killOK, removeOK, downOK, deleteOK: whether Process.Kill, os.Remove,
   `connection down` and `connection delete` succeed.  The exit statuses of
   pkill and of the iptables removals are not looked at. *)

\* a Wait that returns whether or not the child has exited
WaitReturnsAlways(killOK, pid) == TRUE

\* dnsmasqCmd.Wait() returns once the child has exited: it was killed, or it
\* was not alive any more
WaitReturns(killOK, pid) == killOK \/ pid \notin procs

\* a Stop that removes the rules first and stops dnsmasq last
StopOrderRulesFirst(d, h, c) == c \o h \o d

\* Stop's three calls in their order: stopDNSMasq, stopHotspot, cleanupNetworkRules
StopOrder(d, h, c) == d \o h \o c

\* stopDNSMasq: kill and reap the child, then pkill by config path and remove the file
stopDNSMasq(killOK, removeOK) ==
    LET hasProc == dnsmasqCmd.set /\ dnsmasqCmd.Process # 0
        hasPath == dnsmasqConfigPath # 0
    IN  [log |-> (IF hasProc
                  THEN <<ProcOp("Process.Kill", dnsmasqCmd.Process),
                         ProcOp("Wait", dnsmasqCmd.Process)>>
                  ELSE <<>>)
                 \o (IF hasPath
                     THEN <<ExecOn(<<"pkill", "-f", "dnsmasq.*", "dnsmasqConfigPath">>,
                                   dnsmasqConfigPath),
                            FileOp("os.Remove", dnsmasqConfigPath)>>
                     ELSE <<>>),
         cmd |-> IF hasProc THEN NilCmd ELSE dnsmasqCmd,
         \* a Kill that succeeded ends the child
         procs |-> IF hasProc /\ killOK THEN procs \ {dnsmasqCmd.Process} ELSE procs,
         files |-> IF hasPath /\ removeOK THEN files \ {dnsmasqConfigPath} ELSE files,
         path |-> IF hasPath THEN 0 ELSE dnsmasqConfigPath]

\* stopHotspot: connection down, then connection delete, both by the stored name
stopHotspot(downOK, deleteOK) ==
    [log |-> <<Exec(<<"nmcli", "connection", "down", config.Name>>),
               Exec(<<"nmcli", "connection", "delete", config.Name>>)>>,
     active |-> IF downOK \/ deleteOK THEN active \ {config.Name} ELSE active,
     profiles |-> IF deleteOK THEN profiles \ {config.Name} ELSE profiles]

\* cleanupNetworkRules: the iptables removals, nothing for ufw
cleanupNetworkRules ==
    LET ipt == CleanupIPTablesRules(config.Interface, config.PortalPort)
    IN  [log |-> [i \in 1..Len(ipt) |-> IPTablesApply(ipt[i])]]

\* a Stop that does not look at the running flag
StopIsNoopNever(isRunning) == FALSE

\* Stop's first check: `if !h.running { return nil }`
StopIsNoop(isRunning) == ~isRunning

\* a Stop that forgets `h.running = false`
RunningAfterStopKept(isRunning) == isRunning

\* Stop's last assignment: `h.running = false`
RunningAfterStop(isRunning) == FALSE

StopResult(killOK, removeOK, downOK, deleteOK) ==
    LET same == [running |-> running, path |-> dnsmasqConfigPath, cmd |-> dnsmasqCmd,
                 profiles |-> profiles, active |-> active, files |-> files,
                 procs |-> procs, ret |-> Nil, log |-> <<>>]
        d == stopDNSMasq(killOK, removeOK)
        h == stopHotspot(downOK, deleteOK)
        c == cleanupNetworkRules
    IN  IF StopIsNoop(running) THEN same
        ELSE [same EXCEPT !.running = RunningAfterStop(running),
                          !.path = d.path, !.cmd = d.cmd,
                          !.procs = d.procs, !.files = d.files,
                          !.active = h.active, !.profiles = h.profiles,
                          !.log = StopOrder(d.log, h.log, c.log)]

\* the service holds a child process: `h.dnsmasqCmd != nil && h.dnsmasqCmd.Process != nil`
HasProc == dnsmasqCmd.set /\ dnsmasqCmd.Process # 0

\* a Stop call that returns
Stop(killOK, removeOK, downOK, deleteOK) ==
    /\ StopIsNoop(running) \/ ~HasProc \/ WaitReturns(killOK, dnsmasqCmd.Process)
    /\ \E r \in {StopResult(killOK, removeOK, downOK, deleteOK)} :
        /\ running' = r.running
        /\ dnsmasqConfigPath' = r.path
        /\ dnsmasqCmd' = r.cmd
        /\ profiles' = r.profiles
        /\ active' = r.active
        /\ files' = r.files
        /\ procs' = r.procs
        /\ startedSinceStop' = FALSE
        /\ prev' = [op |-> lastOp, acted |-> log # <<>>]
        /\ lastOp' = "Stop"
        /\ arg' = ZeroConfig
        /\ ret' = r.ret
        /\ log' = r.log
        /\ UNCHANGED <<config, lastRun, startCalled, inStart, route, out, input, hostapd>>

\* a Stop call whose Process.Kill fails while the child is alive: it has logged
\* the error and is in dnsmasqCmd.Wait(), which returns when the child exits
StopWait ==
    /\ ~StopIsNoop(running)
    /\ HasProc
    /\ ~WaitReturns(FALSE, dnsmasqCmd.Process)
    /\ lastOp' = "StopWait"
    /\ arg' = ZeroConfig
    /\ ret' = Nil
    /\ log' = <<ProcOp("Process.Kill", dnsmasqCmd.Process), ProcOp("Wait", dnsmasqCmd.Process)>>
    /\ prev' = [op |-> lastOp, acted |-> log # <<>>]
    /\ UNCHANGED <<svc, world, lastRun, startedSinceStop, startCalled, aux>>

----------------------------------------------------------------------------
(* The direct-daemon backend, NewHostAPDService: its config and constructor.
   The source holds it in two versions, which differ in Validate, in the
   receiver Start validates, in prepareInterface, in the way the hostapd
   template is parsed and in Stop. *)

Earlier == "part_003"
Latest == "hostapd_service.go"
HostapdVersions == {Earlier, Latest}

\* the APConfig of this backend has a Channel, and no PortalPort
HostapdConfig(c, channel) ==
    [Name |-> c.Name, Interface |-> c.Interface, SSID |-> c.SSID, Password |-> c.Password,
     Channel |-> channel, CountryCode |-> c.CountryCode, Security |-> c.Security,
     Gateway |-> c.Gateway, DHCPRange |-> c.DHCPRange]

\* the service as NewHostAPDService returns it: the zero config, no config
\* path, not running; no daemon launched, no call made
NewHostAPDService(version) ==
    [version |-> version, config |-> HostapdConfig(ZeroConfig, 0), configPath |-> "",
     running |-> FALSE, live |-> {}, ret |-> Nil, log |-> <<>>]

----------------------------------------------------------------------------
(* The specification of the service: any sequence of Start and Stop calls *)

\* the sets of failing rules a Start is given
RuleFailChoices == {{}, 1..5}

Init ==
    /\ running = FALSE
    /\ config = ZeroConfig
    /\ dnsmasqConfigPath = 0
    /\ dnsmasqCmd = NilCmd
    /\ profiles = {}
    /\ active = {}
    /\ files = {}
    /\ procs = {}
    /\ lastOp = "none"
    /\ arg = ZeroConfig
    /\ ret = Nil
    /\ log = <<>>
    /\ lastRun = NoRun
    /\ startedSinceStop = FALSE
    /\ startCalled = FALSE
    /\ prev = [op |-> "none", acted |-> FALSE]
    /\ inStart = {}
    /\ route = RouteEth
    /\ out = <<>>
    /\ input = <<>>
    /\ hostapd = NewHostAPDService(Latest)

\* the outcomes a Start(cfg) can meet in the current state: an operation that
\* is not run has no outcome
StartOutcomes(cfg, fps, ufs, nfs) ==
    IF running \/ Validate(cfg) # Nil THEN {<<"none", {}, {}>>}
    ELSE {<<fp, {}, {}>> : fp \in fps \cap {"managed", "add", "up"}}
         \cup ((fps \ {"managed", "add", "up"}) \X ufs \X nfs)

StopOutcomes ==
    IF running THEN BOOLEAN \X BOOLEAN \X BOOLEAN \X BOOLEAN
    ELSE {<<TRUE, TRUE, TRUE, TRUE>>}

\* the caller makes one call at a time: it makes no call while one has not returned
CallerFree == lastOp # "StopWait"

StartCall ==
    /\ CallerFree
    /\ \E cfg \in StartConfigs :
        \E o \in StartOutcomes(cfg, StartFailPoints, RuleFailChoices, RuleFailChoices) :
            Start(cfg, o[1], o[2], o[3])

StopCall == CallerFree /\ \E o \in StopOutcomes : Stop(o[1], o[2], o[3], o[4])

Next == StartCall \/ StopCall \/ StopWait

Spec == Init /\ [][Next]_vars

----------------------------------------------------------------------------
(* The specification of the rule step: the first Start of an instance, with
   every subset of the firewall and NAT rules failing, and the Stop calls
   after it *)

RuleSpecConfigs == {CfgWpa2}
RuleSpecFailPoints == {"execute", "launch", "none"}

StartRules ==
    /\ ~startCalled
    /\ CallerFree
    /\ \E cfg \in RuleSpecConfigs :
        \E o \in StartOutcomes(cfg, RuleSpecFailPoints, SUBSET UfwIdx, SUBSET NatIdx) :
            Start(cfg, o[1], o[2], o[3])

NextRules == StartRules \/ StopCall \/ StopWait

SpecRules == Init /\ [][NextRules]_vars

----------------------------------------------------------------------------
(* The specification of APConfig.Validate: one config, validated once *)

InitValidate ==
    /\ running = FALSE
    /\ config = ZeroConfig
    /\ dnsmasqConfigPath = 0
    /\ dnsmasqCmd = NilCmd
    /\ profiles = {}
    /\ active = {}
    /\ files = {}
    /\ procs = {}
    /\ lastOp = "none"
    /\ arg \in AllConfigs \cup StartConfigs
    /\ ret = Nil
    /\ log = <<>>
    /\ lastRun = NoRun
    /\ startedSinceStop = FALSE
    /\ startCalled = FALSE
    /\ prev = [op |-> "none", acted |-> FALSE]
    /\ inStart = {}
    /\ route = RouteEth
    /\ out = <<>>
    /\ input = <<>>
    /\ hostapd = NewHostAPDService(Latest)

ValidateCall ==
    /\ lastOp = "none"
    /\ lastOp' = "Validate"
    /\ ret' = Validate(arg)
    /\ UNCHANGED <<svc, world, arg, log, hist, aux>>

NextValidate == ValidateCall

SpecValidate == InitValidate /\ [][NextValidate]_vars

----------------------------------------------------------------------------
(* The specification of the builders: the rule lists and the argument vector
   of the hotspot command, built for one config while the default route of the
   host changes *)

BuildConfigs ==
    [Name : {"testing"}, Interface : {"wlan0", "wlan1"}, SSID : {"Test"},
     Password : Passwords, CountryCode : {"SE"}, Security : Securities,
     Gateway : {"192.168.4.1"}, DHCPRange : {"192.168.4.2,192.168.4.50"},
     PortalPort : {"80", "8080"}]

InitBuild ==
    /\ running = FALSE
    /\ config = ZeroConfig
    /\ dnsmasqConfigPath = 0
    /\ dnsmasqCmd = NilCmd
    /\ profiles = {}
    /\ active = {}
    /\ files = {}
    /\ procs = {}
    /\ lastOp = "none"
    /\ arg \in BuildConfigs
    /\ ret = Nil
    /\ log = <<>>
    /\ lastRun = NoRun
    /\ startedSinceStop = FALSE
    /\ startCalled = FALSE
    /\ prev = [op |-> "none", acted |-> FALSE]
    /\ inStart = {}
    /\ route \in Routes
    /\ out = <<>>
    /\ input = <<>>
    /\ hostapd = NewHostAPDService(Latest)

\* a builder is called with the fields of arg and returns value
BuilderCall(name, value) ==
    /\ lastOp' = name
    /\ out' = value
    /\ UNCHANGED <<svc, world, arg, ret, log, hist, inStart, route, input, hostapd>>

GetRequiredFirewallRulesCall ==
    BuilderCall("GetRequiredFirewallRules",
                GetRequiredFirewallRules(arg.Interface, arg.PortalPort))

CreateIPTablesRulesCall ==
    BuilderCall("CreateIPTablesRules", CreateIPTablesRules(arg.Interface, arg.PortalPort))

CleanupIPTablesRulesCall ==
    BuilderCall("CleanupIPTablesRules", CleanupIPTablesRules(arg.Interface, arg.PortalPort))

CreateIPTablesRules005Call ==
    BuilderCall("CreateIPTablesRules005",
                CreateIPTablesRules005(arg.Interface, arg.PortalPort))

CleanupIPTablesRules005Call ==
    BuilderCall("CleanupIPTablesRules005",
                CleanupIPTablesRules005(arg.Interface, arg.PortalPort))

\* createHotspot runs on a config that has passed Validate
createHotspotCall ==
    Validate(arg) = Nil /\ BuilderCall("createHotspot", HotspotArgs(arg))

createHotspot004Call ==
    Validate(arg) = Nil /\ BuilderCall("createHotspot004", HotspotArgs004(arg))

\* the default route of the host changes
RouteChange ==
    /\ \E r \in Routes \ {route} : route' = r
    /\ UNCHANGED <<svc, world, call, hist, inStart, out, input, hostapd>>

NextBuild ==
    \/ GetRequiredFirewallRulesCall
    \/ CreateIPTablesRulesCall
    \/ CleanupIPTablesRulesCall
    \/ CreateIPTablesRules005Call
    \/ CleanupIPTablesRules005Call
    \/ createHotspotCall
    \/ createHotspot004Call
    \/ RouteChange

SpecBuild == InitBuild /\ [][NextBuild]_vars

----------------------------------------------------------------------------
(* The specification of overlapping calls: two goroutines call Start and Stop
   on one instance.  Start has no lock: a goroutine that has passed the
   running check and the validation and stored the config runs its steps
   later, with whatever h.config then holds, and sets h.running at their end. *)

Goroutines == 1..MaxGoroutines
ConcConfigs == {CfgWpa2, CfgOpen, CfgE2E}
ConcFailPoints == {"up", "launch", "none"}

\* Start up to `h.config = config`
StartEnter(g, cfg) ==
    /\ g \notin inStart
    /\ arg' = cfg
    /\ log' = <<>>
    /\ prev' = [op |-> lastOp, acted |-> log # <<>>]
    /\ startCalled' = TRUE
    /\ IF StartRejected(running)
       THEN /\ lastOp' = "Start"
            /\ ret' = ErrServiceAlreadyRunning
            /\ UNCHANGED <<config, inStart>>
       ELSE IF Validate(cfg) # Nil
       THEN /\ lastOp' = "Start"
            /\ ret' = Wrap(Validate(cfg), "invalid access point configuration")
            /\ UNCHANGED <<config, inStart>>
       ELSE /\ lastOp' = "StartEnter"
            /\ ret' = Nil
            /\ config' = cfg
            /\ inStart' = inStart \cup {g}
    /\ UNCHANGED <<running, dnsmasqConfigPath, dnsmasqCmd, world, lastRun,
                   startedSinceStop, route, out, input, hostapd>>

\* Start from prepareInterface to its return
StartFinish(g, fp, uf, nf) ==
    /\ g \in inStart
    /\ \E r \in {StartSteps(config, fp, uf, nf)} :
        /\ running' = r.running
        /\ config' = r.config
        /\ dnsmasqConfigPath' = r.path
        /\ dnsmasqCmd' = r.cmd
        /\ profiles' = r.profiles
        /\ active' = r.active
        /\ files' = r.files
        /\ procs' = r.procs
        /\ lastRun' = r.lastRun
        /\ startedSinceStop' = (startedSinceStop \/ (r.ret = Nil))
        /\ prev' = [op |-> lastOp, acted |-> log # <<>>]
        /\ lastOp' = "Start"
        /\ arg' = config
        /\ ret' = r.ret
        /\ log' = r.log
        /\ inStart' = inStart \ {g}
        /\ UNCHANGED <<startCalled, route, out, input, hostapd>>

ConcStartEnter == \E g \in Goroutines, cfg \in ConcConfigs : StartEnter(g, cfg)

ConcStartFinish ==
    \E g \in Goroutines, fp \in ConcFailPoints, uf \in RuleFailChoices :
        StartFinish(g, fp, uf, {})

ConcStop == \E o \in StopOutcomes : Stop(o[1], o[2], o[3], o[4])

NextConc == ConcStartEnter \/ ConcStartFinish \/ ConcStop

SpecConc == Init /\ [][NextConc]_vars

----------------------------------------------------------------------------
(* The interface manager: the wireless interfaces of the host and the choice
   of the one to run the access point on *)

ErrAllAccessPointsInUse ==
    [base |-> "ErrAllAccessPointsInUse",
     chain |-> <<"all wireless access points are currently in use">>]

ErrNoAccessPointFound ==
    [base |-> "ErrNoAccessPointFound", chain |-> <<"no wireless access point found">>]

Min(S) == CHOOSE i \in S : \A j \in S : i <= j

\* net.Interfaces(): the i-th interface of the host; wireless is the outcome of
\* `test -d /sys/class/net/<name>/wireless`, up the flag net.FlagUp, wifiList
\* the outcome of `nmcli device wifi list ifname <name>`
HostInterfaces(n) ==
    {l \in [1..n -> [Name : {"wlan0", "wlan1", "wlan2", "wlan3", "wlan4"},
                     wireless : BOOLEAN, up : BOOLEAN, wifiList : BOOLEAN]] :
        \A i \in 1..n : l[i].Name = "wlan" \o ToString(i - 1)}

\* the outcomes of net.Interfaces(): an error, or a list
InterfaceInputs ==
    [err : BOOLEAN, interfaces : UNION {HostInterfaces(n) : n \in 0..MaxInterfaces}]

isWireless(i) == i.wireless

supportsAPMode(i) == i.wifiList

\* ListWirelessInterfaces: the wireless ones, in the order of net.Interfaces()
ListWirelessInterfaces(interfaces) ==
    LET wireless == SelectSeq(interfaces, isWireless)
    IN  [k \in 1..Len(wireless) |->
            [Name |-> wireless[k].Name, InUse |-> wireless[k].up,
             SupportAP |-> supportsAPMode(wireless[k])]]

\* a GetBestAPInterface whose first loop does not look at InUse
GetBestAPInterfaceAnyUse(in) ==
    IF in.err
    THEN [iface |-> <<>>, err |-> Wrap(ExecErr, "failed to list network interfaces")]
    ELSE LET interfaces == ListWirelessInterfaces(in.interfaces)
             ap == {i \in DOMAIN interfaces : interfaces[i].SupportAP}
         IN  IF ap # {} THEN [iface |-> <<interfaces[Min(ap)]>>, err |-> Nil]
             ELSE [iface |-> <<>>, err |-> ErrNoAccessPointFound]

\* a GetBestAPInterface whose second loop returns no interface
GetBestAPInterfaceNoFallback(in) ==
    IF in.err
    THEN [iface |-> <<>>, err |-> Wrap(ExecErr, "failed to list network interfaces")]
    ELSE LET interfaces == ListWirelessInterfaces(in.interfaces)
             free == {i \in DOMAIN interfaces :
                        interfaces[i].SupportAP /\ ~interfaces[i].InUse}
             ap == {i \in DOMAIN interfaces : interfaces[i].SupportAP}
         IN  IF free # {} THEN [iface |-> <<interfaces[Min(free)]>>, err |-> Nil]
             ELSE IF ap # {} THEN [iface |-> <<>>, err |-> ErrAllAccessPointsInUse]
             ELSE [iface |-> <<>>, err |-> ErrNoAccessPointFound]

\* GetBestAPInterface: iface is the pointer it returns, <<>> for nil
GetBestAPInterface(in) ==
    IF in.err
    THEN [iface |-> <<>>, err |-> Wrap(ExecErr, "failed to list network interfaces")]
    ELSE LET interfaces == ListWirelessInterfaces(in.interfaces)
             free == {i \in DOMAIN interfaces :
                        interfaces[i].SupportAP /\ ~interfaces[i].InUse}
             ap == {i \in DOMAIN interfaces : interfaces[i].SupportAP}
         IN  IF free # {} THEN [iface |-> <<interfaces[Min(free)]>>, err |-> Nil]
             ELSE IF ap # {} THEN [iface |-> <<interfaces[Min(ap)]>>,
                                   err |-> ErrAllAccessPointsInUse]
             ELSE [iface |-> <<>>, err |-> ErrNoAccessPointFound]

\* the state of a call outside the service: nothing of the service is touched
InitOutside ==
    /\ running = FALSE
    /\ config = ZeroConfig
    /\ dnsmasqConfigPath = 0
    /\ dnsmasqCmd = NilCmd
    /\ profiles = {}
    /\ active = {}
    /\ files = {}
    /\ procs = {}
    /\ lastOp = "none"
    /\ arg = ZeroConfig
    /\ ret = Nil
    /\ log = <<>>
    /\ lastRun = NoRun
    /\ startedSinceStop = FALSE
    /\ startCalled = FALSE
    /\ prev = [op |-> "none", acted |-> FALSE]
    /\ inStart = {}
    /\ route = RouteEth
    /\ out = <<>>
    /\ hostapd = NewHostAPDService(Latest)

InitInterfaces == InitOutside /\ input \in InterfaceInputs

GetBestAPInterfaceCall ==
    /\ lastOp' = "GetBestAPInterface"
    /\ out' = GetBestAPInterface(input).iface
    /\ ret' = GetBestAPInterface(input).err
    /\ UNCHANGED <<svc, world, arg, log, hist, inStart, route, input, hostapd>>

NextInterfaces == GetBestAPInterfaceCall

SpecInterfaces == InitInterfaces /\ [][NextInterfaces]_vars

----------------------------------------------------------------------------
(* Strings: the functions of the Go packages strings and strconv the parsers
   use, on the characters of the string *)

\* what strings.TrimSpace and strings.Fields take for white space
IsSpace(c) == c \in {" ", "\t", "\n", "\r"}

RECURSIVE TrimLeft(_)
TrimLeft(s) ==
    IF Len(s) > 0 /\ IsSpace(SubSeq(s, 1, 1)) THEN TrimLeft(SubSeq(s, 2, Len(s))) ELSE s

RECURSIVE TrimRight(_)
TrimRight(s) ==
    IF Len(s) > 0 /\ IsSpace(SubSeq(s, Len(s), Len(s)))
    THEN TrimRight(SubSeq(s, 1, Len(s) - 1))
    ELSE s

\* strings.TrimSpace
TrimSpace(s) == TrimRight(TrimLeft(s))

\* strings.TrimSuffix
TrimSuffix(s, suffix) ==
    IF Len(s) >= Len(suffix) /\ SubSeq(s, Len(s) - Len(suffix) + 1, Len(s)) = suffix
    THEN SubSeq(s, 1, Len(s) - Len(suffix))
    ELSE s

\* the first position from i on where sep stands in s, 0 when there is none
RECURSIVE Index(_, _, _)
Index(s, sep, i) ==
    IF i + Len(sep) - 1 > Len(s) THEN 0
    ELSE IF SubSeq(s, i, i + Len(sep) - 1) = sep THEN i
    ELSE Index(s, sep, i + 1)

\* strings.Contains
Contains(s, substr) == Index(s, substr, 1) # 0

\* strings.Split, for a separator that is not empty: one field more than
\* there are separators, empty fields kept
RECURSIVE Split(_, _)
Split(s, sep) ==
    LET i == Index(s, sep, 1)
    IN  IF i = 0 THEN <<s>>
        ELSE <<SubSeq(s, 1, i - 1)>> \o Split(SubSeq(s, i + Len(sep), Len(s)), sep)

\* the first position from i on where white space stands in s, 0 when none
RECURSIVE IndexSpace(_, _)
IndexSpace(s, i) ==
    IF i > Len(s) THEN 0
    ELSE IF IsSpace(SubSeq(s, i, i)) THEN i
    ELSE IndexSpace(s, i + 1)

\* strings.Fields: the maximal runs of characters that are not white space
RECURSIVE Fields(_)
Fields(s) ==
    LET t == TrimLeft(s)
        i == IndexSpace(t, 1)
    IN  IF t = "" THEN <<>>
        ELSE IF i = 0 THEN <<t>>
        ELSE <<SubSeq(t, 1, i - 1)>> \o Fields(SubSeq(t, i + 1, Len(t)))

\* the value of a decimal digit, -1 for any other character
DigitValue(c) ==
    CASE c = "0" -> 0 [] c = "1" -> 1 [] c = "2" -> 2 [] c = "3" -> 3 [] c = "4" -> 4
      [] c = "5" -> 5 [] c = "6" -> 6 [] c = "7" -> 7 [] c = "8" -> 8 [] c = "9" -> 9
      [] OTHER -> -1

\* the value of the decimal digits of s after acc, -1 when one is no digit
RECURSIVE ParseDigits(_, _)
ParseDigits(s, acc) ==
    IF s = "" THEN acc
    ELSE IF DigitValue(SubSeq(s, 1, 1)) < 0 THEN -1
    ELSE ParseDigits(SubSeq(s, 2, Len(s)), 10 * acc + DigitValue(SubSeq(s, 1, 1)))

\* strconv.Atoi: an optional sign and at least one decimal digit, nothing else
\* (the values here are far from the range of int)
Atoi(s) ==
    LET signed == Len(s) > 0 /\ SubSeq(s, 1, 1) \in {"+", "-"}
        digits == IF signed THEN SubSeq(s, 2, Len(s)) ELSE s
        n == ParseDigits(digits, 0)
    IN  IF digits = "" \/ n < 0 THEN [ok |-> FALSE, n |-> 0]
        ELSE [ok |-> TRUE, n |-> IF SubSeq(s, 1, 1) = "-" THEN 0 - n ELSE n]

\* strings.Join
RECURSIVE Join(_, _)
Join(elems, sep) ==
    IF elems = <<>> THEN ""
    ELSE IF Len(elems) = 1 THEN elems[1]
    ELSE elems[1] \o sep \o Join(Tail(elems), sep)

----------------------------------------------------------------------------
(* The scan parser (parseNetworkList of the interface manager) *)

\* a conversion that maps every signal between the ends to 50
SignalPercentHalf(signal) ==
    IF signal >= -30 THEN 100
    ELSE IF signal <= -90 THEN 0
    ELSE 50

\* dBm to percent: int(((float64(signal) + 90) / 60) * 100).  For the integers
\* between -90 and -30 the float64 product, truncated, is the quotient of the
\* integer division
SignalPercent(signal) ==
    IF signal >= -30 THEN 100
    ELSE IF signal <= -90 THEN 0
    ELSE ((signal + 90) * 100) \div 60

\* a parser that reads the security from the field of the bars
SecurityOfBars(fields) ==
    IF Len(fields) > 7
    THEN IF fields[8] = "" \/ fields[8] = "--" THEN "none" ELSE fields[8]
    ELSE "unknown"

\* the Security of a record (fields[8] of the code is fields[9] here)
SecurityOf(fields) ==
    IF Len(fields) > 8
    THEN IF fields[9] = "" \/ fields[9] = "--" THEN "none" ELSE fields[9]
    ELSE "unknown"

\* a parser that reads a line by white space whenever that gives 7 fields
LineFieldsSpaceFirst(line) ==
    IF Len(Fields(line)) >= 7 THEN Fields(line) ELSE Split(line, ":")

\* the fields of a trimmed line: the colon-delimited ones, or the
\* space-separated ones when those are fewer than 9
LineFields(line) ==
    IF Len(Split(line, ":")) < 9 THEN Fields(line) ELSE Split(line, ":")

\* the record of the fields of a line that is not skipped
NetworkOf(fields) ==
    LET signalStr == TrimSpace(TrimSuffix(fields[7], "dBm"))
    IN  [SSID |-> fields[1],
         DisplayName |-> fields[1],
         BSSID |-> fields[2],
         Channel |-> IF Len(fields) > 3 THEN fields[4] ELSE "",
         Frequency |-> IF Len(fields) > 4 THEN fields[5] ELSE "",
         Signal |-> IF Len(fields) > 6 /\ Atoi(signalStr).ok
                    THEN SignalPercent(Atoi(signalStr).n)
                    ELSE 0,
         Security |-> SecurityOf(fields)]

\* a parser that stops at the first line it cannot use
RECURSIVE ParseLinesAbort(_)
ParseLinesAbort(lines) ==
    IF lines = <<>> THEN <<>>
    ELSE LET line == TrimSpace(Head(lines))
             fields == LineFields(line)
         IN  IF line = "" THEN ParseLinesAbort(Tail(lines))
             ELSE IF Len(fields) < 7 THEN <<>>
             ELSE IF fields[1] = "" \/ fields[1] = "--" THEN <<>>
             ELSE <<NetworkOf(fields)>> \o ParseLinesAbort(Tail(lines))

\* the loop over the lines
RECURSIVE ParseLines(_)
ParseLines(lines) ==
    IF lines = <<>> THEN <<>>
    ELSE LET line == TrimSpace(Head(lines))
             fields == LineFields(line)
         IN  IF line = "" THEN ParseLines(Tail(lines))
             ELSE IF Len(fields) < 7 THEN ParseLines(Tail(lines))
             ELSE IF fields[1] = "" \/ fields[1] = "--" THEN ParseLines(Tail(lines))
             ELSE <<NetworkOf(fields)>> \o ParseLines(Tail(lines))

parseNetworkList(output) ==
    [networks |-> ParseLines(Split(output, "\n")), err |-> Nil]

\* A line of a scan output: its text, the delimiter its fields are read by
\* (the colon when the text has 9 colon-delimited fields or more, white space
\* when it has fewer) and the fields the text has by that delimiter.
ColonLine(fields) == [text |-> Join(fields, ":"), sep |-> ":", fields |-> fields]

SpaceLine(text, fields) == [text |-> text, sep |-> " ", fields |-> fields]

\* a line of the nine fields SSID, BSSID, mode, channel, frequency, rate,
\* signal, bars, security
ScanLine(ssid, signal, security) ==
    ColonLine(<<ssid, "AABBCCDDEEFF", "Infra", "6", "2437 MHz", "54 Mbit/s",
                signal, "***", security>>)

\* the lines that differ in the signal only
SignalLines ==
    {ScanLine("Home", ToString(dbm) \o unit, "WPA2") :
        dbm \in (0 - MaxDbm)..MaxDbm, unit \in {"", "dBm", " dBm"}}
    \cup {ScanLine("Home", signal, "WPA2") : signal \in {"", "--", "-60.5", "+75", "-"}}

\* the lines the batches are made of
BatchLines ==
    {ScanLine("Home", "-60", "WPA2"),
     ScanLine("Guest", "-90 dBm", "--"),
     ScanLine("", "-70", "WPA2"),
     ScanLine("--", "-70", "WPA2"),
     ColonLine(<<"Attic", "AA", "BB", "CC", "DD", "EE", "FF", "Infra", "6", "2437 MHz",
                 "54 Mbit/s", "-60", "***", "WPA2">>),
     SpaceLine("Shed:AABB:Infra", <<"Shed:AABB:Infra">>),
     SpaceLine("  \t", <<>>),
     SpaceLine("Lab 778899AABBCC Infra 36 5180 54 -45dBm\r",
               <<"Lab", "778899AABBCC", "Infra", "36", "5180", "54", "-45dBm">>),
     SpaceLine("  Barn 778899AABBCC Infra 36  5180 54 -75 ** WPA3",
               <<"Barn", "778899AABBCC", "Infra", "36", "5180", "54", "-75", "**", "WPA3">>)}

\* the lines that stand alone
SingleLines ==
    SignalLines
    \cup {ScanLine("Cafe", "-30", ""),
          SpaceLine("", <<>>),
          SpaceLine("-- 778899AABBCC Infra 36 5180 54 -45",
                    <<"--", "778899AABBCC", "Infra", "36", "5180", "54", "-45">>),
          SpaceLine("Den 77:88:99:AA:BB:CC Infra 36 5180 54 -45",
                    <<"Den", "77:88:99:AA:BB:CC", "Infra", "36", "5180", "54", "-45">>),
          SpaceLine("Den 77:88 Infra 36 5180 54", <<"Den", "77:88", "Infra", "36", "5180", "54">>),
          ColonLine(<<"Loft on the top floor of the house", "AABBCCDDEEFF", "Infra", "6",
                      "2437 MHz", "54 Mbit/s", "-50", "***", "WPA2">>)}

\* the scan outputs: one line of any signal, or a batch of up to MaxLines lines
ScanOutputs ==
    {<<l>> : l \in SingleLines}
    \cup UNION {[1..n -> BatchLines] : n \in 0..MaxLines}

\* the text of a scan output: every line ends with a newline
RECURSIVE ScanText(_)
ScanText(lines) ==
    IF lines = <<>> THEN "" ELSE Head(lines).text \o "\n" \o ScanText(Tail(lines))

InitParse == InitOutside /\ input \in ScanOutputs

parseNetworkListCall ==
    /\ lastOp' = "parseNetworkList"
    /\ \E r \in {parseNetworkList(ScanText(input))} :
            /\ out' = r.networks
            /\ ret' = r.err
    /\ UNCHANGED <<svc, world, arg, log, hist, inStart, route, input, hostapd>>

NextParse == parseNetworkListCall

SpecParse == InitParse /\ [][NextParse]_vars

----------------------------------------------------------------------------
(* The scan (ListAvailableNetworks of the interface manager).  The call is
   given the interface name; nmcli is whether exec.LookPath finds nmcli;
   rescanOK, listOK and retryOK are whether the rescan, the listing and the
   listing without the interface exit with status 0; output and retryOutput
   are what the two listings print. *)

ErrNmcliMissing ==
    [base |-> "nmcli (NetworkManager) is not installed or not available in PATH",
     chain |-> <<>>]

IfName(interfaceName) ==
    IF interfaceName # "" THEN <<"ifname", interfaceName>> ELSE <<>>

RescanArgs == <<"nmcli", "device", "wifi", "rescan">>

ListArgs ==
    <<"nmcli", "-t", "-f", "SSID,BSSID,MODE,CHAN,FREQ,RATE,SIGNAL,BARS,SECURITY",
      "device", "wifi", "list">>

\* a scan that gives up when the rescan fails
ListAvailableNetworksRescanFatal(in) ==
    IF ~in.nmcli
    THEN [log |-> <<>>, networks |-> <<>>, err |-> ErrNmcliMissing]
    ELSE [log |-> <<Exec(RescanArgs \o IfName(in.interfaceName)),
                    Exec(ListArgs \o IfName(in.interfaceName))>>,
          networks |-> IF in.rescanOK /\ in.listOK
                       THEN parseNetworkList(ScanText(in.output)).networks
                       ELSE <<>>,
          err |-> IF in.rescanOK /\ in.listOK THEN Nil
                  ELSE Wrap(ExecErr, "failed to scan for networks (interface: "
                                         \o in.interfaceName \o ")")]

ListAvailableNetworks(in) ==
    LET rescan == Exec(RescanArgs \o IfName(in.interfaceName))
        list == Exec(ListArgs \o IfName(in.interfaceName))
        retry == Exec(ListArgs)
        retried == ~in.listOK /\ in.interfaceName # ""
        failed == ~in.listOK /\ (retried => ~in.retryOK)
        output == IF retried THEN in.retryOutput ELSE in.output
    IN  IF ~in.nmcli
        THEN [log |-> <<>>, networks |-> <<>>, err |-> ErrNmcliMissing]
        ELSE [log |-> <<rescan, list>> \o (IF retried THEN <<retry>> ELSE <<>>),
              networks |-> IF failed THEN <<>>
                           ELSE parseNetworkList(ScanText(output)).networks,
              err |-> IF failed
                      THEN Wrap(ExecErr, "failed to scan for networks (interface: "
                                             \o in.interfaceName \o ")")
                      ELSE parseNetworkList(ScanText(output)).err]

\* what the listings print
ScanSamples ==
    {<<>>,
     <<ScanLine("Home", "-60", "WPA2")>>,
     <<ScanLine("", "-70", "WPA2"), ScanLine("Guest", "-90 dBm", "--")>>}

ScanInputs ==
    [interfaceName : {"", "wlan0"}, nmcli : BOOLEAN, rescanOK : BOOLEAN,
     listOK : BOOLEAN, retryOK : BOOLEAN, output : ScanSamples, retryOutput : ScanSamples]

InitScan == InitOutside /\ input \in ScanInputs

ListAvailableNetworksCall ==
    /\ lastOp' = "ListAvailableNetworks"
    /\ \E r \in {ListAvailableNetworks(input)} :
            /\ log' = r.log
            /\ out' = r.networks
            /\ ret' = r.err
    /\ UNCHANGED <<svc, world, arg, hist, inStart, route, input, hostapd>>

NextScan == ListAvailableNetworksCall

SpecScan == InitScan /\ [][NextScan]_vars

----------------------------------------------------------------------------
(* The connect (ConnectToNetwork of the interface manager).  The call is given
   the interface name, the ssid and the password; showOK and connectOK are
   whether `nmcli connection show --active` and the connect exit with status
   0, active is what the former prints, and downFails is which `nmcli
   connection down` of the call fails, counted from 1 (0: none). *)

\* a line of `nmcli connection show --active`: the name of the profile and
\* the columns after it
ActiveLine(name, rest) == [name |-> name, text |-> name \o "  " \o rest]

ActiveConnections ==
    {ActiveLine("Home", "1111  wifi      wlan0"),
     ActiveLine("Home", "5555  wifi      wlan3"),
     ActiveLine("Home-5G", "2222  wifi      wlan1"),
     ActiveLine("My Home", "3333  wifi      wlan2"),
     ActiveLine("Wired connection 1", "4444  ethernet  eth0")}

\* the lists of up to MaxActive connections that are up
ActiveLists ==
    UNION {{l \in [1..n -> ActiveConnections] :
                \A i, j \in 1..n : l[i] = l[j] => i = j} : n \in 0..MaxActive}

RECURSIVE ActiveRows(_)
ActiveRows(list) ==
    IF list = <<>> THEN "" ELSE Head(list).text \o "\n" \o ActiveRows(Tail(list))

\* what `nmcli connection show --active` prints: nothing, or a header and a
\* row for every connection
ActiveText(list) ==
    IF list = <<>> THEN "" ELSE "NAME  UUID  TYPE  DEVICE\n" \o ActiveRows(list)

ShowActiveArgs == <<"nmcli", "connection", "show", "--active">>

DownArgs(connectionName) == <<"nmcli", "connection", "down", connectionName>>

\* the loop over the lines of the listing; n is the number of `connection
\* down` commands issued before
RECURSIVE DisconnectLines(_, _, _, _)
DisconnectLines(lines, ssid, downFails, n) ==
    IF lines = <<>> THEN [log |-> <<>>, err |-> Nil]
    ELSE LET fields == Fields(Head(lines))
             rest == DisconnectLines(Tail(lines), ssid, downFails, n + 1)
         IN  IF ~Contains(Head(lines), ssid) \/ Len(fields) = 0
             THEN DisconnectLines(Tail(lines), ssid, downFails, n)
             ELSE IF downFails = n + 1
             THEN [log |-> <<Exec(DownArgs(fields[1]))>>,
                   err |-> Wrap(ExecErr, "failed to disconnect existing connection "
                                             \o fields[1])]
             ELSE [log |-> <<Exec(DownArgs(fields[1]))>> \o rest.log, err |-> rest.err]

disconnectExistingConnection(in) ==
    IF ~in.showOK
    THEN [log |-> <<Exec(ShowActiveArgs)>>,
          err |-> Wrap(ExecErr, "failed to list active connections")]
    ELSE LET r == DisconnectLines(Split(ActiveText(in.active), "\n"), in.ssid,
                                  in.downFails, 0)
         IN  [log |-> <<Exec(ShowActiveArgs)>> \o r.log, err |-> r.err]

ConnectArgs(in) ==
    IF in.password = ""
    THEN <<"nmcli", "device", "wifi", "connect", in.ssid, "ifname", in.interfaceName>>
    ELSE <<"nmcli", "device", "wifi", "connect", in.ssid, "password", in.password,
           "ifname", in.interfaceName>>

ConnectErr(in) ==
    Wrap(ExecErr, "failed to connect to network " \o in.ssid \o " on interface "
                      \o in.interfaceName)

\* a connect that gives up when the teardown fails
ConnectToNetworkTeardownFatal(in) ==
    LET d == disconnectExistingConnection(in)
    IN  IF d.err # Nil THEN [log |-> d.log, err |-> d.err]
        ELSE [log |-> d.log \o <<Exec(ConnectArgs(in))>>,
              err |-> IF in.connectOK THEN Nil ELSE ConnectErr(in)]

ConnectToNetwork(in) ==
    LET d == disconnectExistingConnection(in)
    IN  [log |-> d.log \o <<Exec(ConnectArgs(in))>>,
         err |-> IF in.connectOK THEN Nil ELSE ConnectErr(in)]

ConnectInputs ==
    [interfaceName : {"wlan0"}, ssid : {"Home", "Cafe", "DEVICE"},
     password : {"", "secret123"}, showOK : BOOLEAN, active : ActiveLists,
     downFails : 0..MaxActive, connectOK : BOOLEAN]

InitConnect == InitOutside /\ input \in ConnectInputs

ConnectToNetworkCall ==
    /\ lastOp' = "ConnectToNetwork"
    /\ \E r \in {ConnectToNetwork(input)} :
            /\ log' = r.log
            /\ ret' = r.err
    /\ UNCHANGED <<svc, world, arg, hist, aux>>

NextConnect == ConnectToNetworkCall

SpecConnect == InitConnect /\ [][NextConnect]_vars

----------------------------------------------------------------------------
(* The command runner (internal/command/exec.go) over os/exec.

   A call is given a command: found is whether exec.LookPath finds it; once
   started it writes stdout and stderr and, left alone, exits with status
   code after duration ticks.  RunWithContext is given a context that is done
   doneAt ticks after the call (0: done before the call; more than MaxTime:
   not done while the call lasts) with the error cause; RunWithTimeout is
   given doneAt as its timeout.  killOK is whether the caller may signal the
   child (kill(2) fails with EPERM on a child that runs as another user).

   exec.CommandContext: Start returns the context's error when the context is
   done already; a context done later makes the watcher call Process.Kill.
   A child that is killed has no exit status (ExitCode -1).  When the Kill
   fails, Wait waits for the child to exit by itself (WaitDelay is 0).  Wait
   returns the ExitError of a status other than 0 and, for status 0, the error
   the watcher left: the context's error when the Kill went through, the
   error of the Kill when it failed. *)

ErrNotFound == [base |-> "exec.Error", chain |-> <<"executable file not found in $PATH">>]

ErrKill == [base |-> "wrapError", chain |-> <<"operation not permitted">>]

ContextErr(cause) == [base |-> cause, chain |-> <<>>]

\* os.ProcessState: exited with a status, or killed by a signal
Exited(code) == [exited |-> TRUE, status |-> code]
Signaled == [exited |-> FALSE, status |-> 0]

\* ProcessState.ExitCode
ExitCode(state) == IF state.exited THEN state.status ELSE -1

\* *exec.ExitError
ExitError(state) ==
    [base |-> "ExitError",
     chain |-> <<IF state.exited THEN "exit status " \o ToString(state.status)
                 ELSE "signal: killed">>,
     ProcessState |-> state]

\* what Process.Wait gives Cmd.Wait
WaitErr(state) == IF state = Exited(0) THEN Nil ELSE ExitError(state)

\* the child of a call
Child == 1

\* Where the child is when the context becomes done: "unstarted" (Start has
\* not passed its check of the context), "running", "exited" (not yet
\* reaped by Wait), or "reaped" (also: the context is not done while the call
\* lasts).  At doneAt = duration the scheduler decides.
Phases(in, withContext) ==
    IF ~withContext \/ in.doneAt > in.duration THEN {"reaped"}
    ELSE IF in.doneAt = 0 THEN {"unstarted"}
    ELSE IF in.doneAt < in.duration THEN {"running"}
    ELSE {"running", "exited", "reaped"}

\* Cmd.Run: log is what happens to the child, runErr what Run returns
CmdRun(in, phase, cause) ==
    IF ~in.found
    THEN [log |-> <<>>, stdout |-> "", stderr |-> "", runErr |-> ErrNotFound]
    ELSE IF phase = "unstarted"
    THEN [log |-> <<>>, stdout |-> "", stderr |-> "", runErr |-> ContextErr(cause)]
    ELSE IF phase = "reaped"
    THEN [log |-> <<ProcOp("Start", Child), ProcOp("Exit", Child), ProcOp("Wait", Child)>>,
          stdout |-> in.stdout, stderr |-> in.stderr,
          runErr |-> WaitErr(Exited(in.code))]
    ELSE IF phase = "exited"
    THEN [log |-> <<ProcOp("Start", Child), ProcOp("Exit", Child), ProcOp("Kill", Child),
                    ProcOp("Wait", Child)>>,
          stdout |-> in.stdout, stderr |-> in.stderr,
          runErr |-> IF in.code # 0 THEN WaitErr(Exited(in.code))
                     ELSE IF in.killOK THEN ContextErr(cause) ELSE ErrKill]
    ELSE IF in.killOK
    THEN [log |-> <<ProcOp("Start", Child), ProcOp("Kill", Child), ProcOp("Killed", Child),
                    ProcOp("Wait", Child)>>,
          stdout |-> in.stdout, stderr |-> in.stderr,
          runErr |-> WaitErr(Signaled)]
    ELSE [log |-> <<ProcOp("Start", Child), ProcOp("Kill", Child), ProcOp("Exit", Child),
                    ProcOp("Wait", Child)>>,
          stdout |-> in.stdout, stderr |-> in.stderr,
          runErr |-> IF in.code # 0 THEN WaitErr(Exited(in.code)) ELSE ErrKill]

\* a runner that does not look at the error of the command
ResultOfNoCode(r) ==
    [log |-> r.log,
     res |-> [Stdout |-> r.stdout, Stderr |-> r.stderr, ExitCode |-> 0],
     err |-> r.runErr]

\* the Result and the error Run and RunWithContext return: errors.As finds
\* the ExitError, and its ProcessState is not nil
ResultOf(r) ==
    [log |-> r.log,
     res |-> [Stdout |-> r.stdout, Stderr |-> r.stderr,
              ExitCode |-> IF r.runErr.base = "ExitError"
                           THEN ExitCode(r.runErr.ProcessState)
                           ELSE 0],
     err |-> r.runErr]

Run(in) == ResultOf(CmdRun(in, "reaped", "none"))

RunWithContext(in, phase) == ResultOf(CmdRun(in, phase, in.cause))

\* context.WithTimeout: done after the timeout, with DeadlineExceeded
RunWithTimeout(in, phase) ==
    RunWithContext([in EXCEPT !.cause = "context deadline exceeded"], phase)

CommandInputs ==
    [found : BOOLEAN, code : {0, 1, 2}, duration : 1..MaxTime,
     stdout : {"", "out\n"}, stderr : {"", "err\n"},
     doneAt : 0..(MaxTime + 1),
     cause : {"context canceled", "context deadline exceeded"},
     killOK : BOOLEAN]

InitExec == InitOutside /\ input \in CommandInputs

RunnerCall(name, r) ==
    /\ lastOp' = name
    /\ log' = r.log
    /\ out' = r.res
    /\ ret' = r.err
    /\ UNCHANGED <<svc, world, arg, hist, inStart, route, input, hostapd>>

RunCall == RunnerCall("Run", Run(input))

RunWithContextCall ==
    \E phase \in Phases(input, TRUE) :
        RunnerCall("RunWithContext", RunWithContext(input, phase))

RunWithTimeoutCall ==
    \E phase \in Phases(input, TRUE) :
        RunnerCall("RunWithTimeout", RunWithTimeout(input, phase))

NextExec == RunCall \/ RunWithContextCall \/ RunWithTimeoutCall

SpecExec == InitExec /\ [][NextExec]_vars

----------------------------------------------------------------------------
(* The direct-daemon backend: Start and Stop of the service NewHostAPDService
   makes.  A call is given the version of the source it runs and one fault of
   the system: "managed" (nmcli cannot change the managed mode), "ufw" (a
   firewall rule cannot be applied), "nat" (an iptables rule cannot be
   applied), "launch" (dnsmasq cannot be run), or "none". *)

MinChannel == 1
MaxChannel == 14

\* APConfig.Validate of this backend; the latest version also asks for a password
HostapdValidate(c, version) ==
    IF Len(c.Name) = 0 THEN Wrap(ErrInvalidAPConfig, "name is required")
    ELSE IF Len(c.Interface) = 0 THEN Wrap(ErrInvalidAPConfig, "interface is required")
    ELSE IF Len(c.SSID) = 0 THEN Wrap(ErrInvalidAPConfig, "ssid is required")
    ELSE IF c.Channel < MinChannel \/ c.Channel > MaxChannel
        THEN Wrap(ErrInvalidAPConfig, "channel must be between 1 and 14")
    ELSE IF Len(c.CountryCode) = 0 THEN Wrap(ErrInvalidAPConfig, "country code is required")
    ELSE IF Len(c.Gateway) = 0 THEN Wrap(ErrInvalidAPConfig, "gateway is required")
    ELSE IF Len(c.DHCPRange) = 0 THEN Wrap(ErrInvalidAPConfig, "DHCPRange is required")
    ELSE IF version = Latest /\ Len(c.Password) = 0
        THEN Wrap(ErrInvalidAPConfig, "password is required")
    ELSE Nil

\* the config Start validates: the earlier version validates the receiver's
\* config, before `h.config = config`; the latest the argument
ValidatedConfig(h, cfg) == IF h.version = Earlier THEN h.config ELSE cfg

\* the last element of a path
BaseName(path) == Split(path, "/")[Len(Split(path, "/"))]

\* template.New(name).ParseFS(files, path): the text of the file becomes the
\* body of the template named by the file's base name, associated with `name`
ParseFS(name, path) == [name |-> name, bodies |-> {BaseName(path)}]

\* template.New(name).Parse(text): the text becomes the body of `name`
Parse(name) == [name |-> name, bodies |-> {name}]

\* tmpl.Execute fails on a template that has no body ("incomplete or empty
\* template")
Executes(tmpl) == tmpl.name \in tmpl.bodies

\* the name os.CreateTemp gives a config file, up to its random part
TempName(version, daemon) ==
    IF version = Latest THEN "/tmp/" \o daemon \o "-*.conf"
    ELSE daemon \o "/" \o daemon \o ".conf*"

\* the commands of prepareInterface, in order; each one that fails ends the step
HostapdPrepareCommands(cfg, version) ==
    LET iFace == cfg.Interface
        head == <<Exec(<<"systemctl", "stop", "dnsmasq">>),
                  Exec(<<"nmcli", "device", "set", iFace, "managed", "no">>)>>
        reg == IF cfg.CountryCode = "" THEN "US" ELSE cfg.CountryCode
    IN  IF version = Latest
        THEN head \o <<Exec(<<"ip", "addr", "flush", "dev", iFace>>),
                       Exec(<<"nmcli", "device", "set", iFace, "managed", "yes">>),
                       Exec(<<"ip", "link", "show", iFace>>)>>
        ELSE head \o <<Exec(<<"ip", "link", "set", iFace, "down">>),
                       Exec(<<"ip", "addr", "flush", "dev">>),
                       Exec(<<"iw", "dev", iFace, "set", "type", "managed">>),
                       Exec(<<"ip", "link", "set", iFace, "up">>),
                       Exec(<<"iw", "reg", "set", reg>>),
                       Exec(<<"iw", "dev", iFace, "set", "type", "__ap">>),
                       Exec(<<"ip", "link", "set", iFace, "up">>),
                       Exec(<<"ip", "link", "show", iFace>>)>>

HostapdPrepareInterface(cfg, version, fault) ==
    LET cmds == HostapdPrepareCommands(cfg, version)
    IN  IF fault = "managed"
        THEN [err |-> Wrap(ExecErr, "failed disable interface managed mode"),
              log |-> SubSeq(cmds, 1, 2)]
        ELSE [err |-> Nil, log |-> cmds]

\* generateHostapdConfig: the latest version parses the text of the file as the
\* template "hostapd"; the earlier one parses the file hostapd_config.tmpl into
\* the template set of "hostapd"
generateHostapdConfig(h) ==
    LET tmpl == IF h.version = Latest THEN Parse("hostapd")
                ELSE ParseFS("hostapd", "templates/hostapd_config.tmpl")
        create == FileOp("os.CreateTemp", 0)
    IN  IF ~Executes(tmpl)
        THEN [err |-> Wrap(ExecErr, "failed to execute hostapd template"),
              log |-> <<create>>, configPath |-> h.configPath]
        ELSE [err |-> Nil, log |-> <<create>>,
              configPath |-> TempName(h.version, "hostapd")]

\* the rule lists of this backend: GetRequiredFirewallRules(iFace) and
\* CreateIPTablesRules(iFace, gateway), applied with `uwf` and `iptables`
HostapdFirewallCommands(iFace) ==
    LET rule(dir, port, proto) ==
            Exec(<<"uwf", "allow", dir, "on", iFace, "to any", "port", port, "proto", proto>>)
    IN  <<rule("in", "67", "udp"), rule("out", "68", "udp"), rule("in", "80", "tcp"),
          rule("in", "53", "udp"), rule("in", "53", "tcp")>>

HostapdIPTablesCommands(iFace, gateway) ==
    LET dnat(port) ==
            Exec(<<"iptables", "-t", "nat", "-A", "PREROUTING", "-i", iFace, "-p", "tcp",
                   "--dport", port, "-j", "DNAT", "--to-destination", gateway \o ":80">>)
    IN  <<dnat("80"), dnat("443"),
          Exec(<<"iptables", "-A", "INPUT", "-i", iFace, "-p", "tcp", "--dport", "80",
                 "-j", "ACCEPT">>),
          Exec(<<"iptables", "-A", "FORWARD", "-i", iFace, "-j", "ACCEPT">>)>>

\* configureNetwork of this backend: the first rule that cannot be applied
\* ends the step with its error
HostapdConfigureNetwork(cfg, fault) ==
    LET addr == Exec(<<"ip", "addr", "add", cfg.Gateway \o "/24", "dev", cfg.Interface>>)
        ufw == HostapdFirewallCommands(cfg.Interface)
        nat == HostapdIPTablesCommands(cfg.Interface, cfg.Gateway)
    IN  IF fault = "ufw"
        THEN [err |-> Wrap(ExecErr, "failed to apply firewall rule"),
              log |-> <<addr, ufw[1]>>]
        ELSE IF fault = "nat"
        THEN [err |-> Wrap(ExecErr, "failed to apply iptables rule"),
              log |-> <<addr>> \o ufw \o <<nat[1]>>]
        ELSE [err |-> Nil, log |-> <<addr>> \o ufw \o nat]

\* startDNSMasq of this backend: the file dnsmasq_config.tmpl is parsed into the
\* template set of "dnsmasq"; dnsmasq is run with CombinedOutput, which
\* returns when the process has exited
HostapdStartDNSMasq(h, fault) ==
    LET tmpl == ParseFS("dnsmasq", "templates/dnsmasq_config.tmpl")
        create == FileOp("os.CreateTemp", 0)
        run == Exec(<<"dnsmasq", "-C", TempName(h.version, "dnsmasq"), "-d">>)
    IN  IF ~Executes(tmpl)
        THEN [err |-> Wrap(ExecErr, "failed to execute hostapd template"), log |-> <<create>>,
              live |-> {}]
        ELSE IF fault = "launch"
        THEN [err |-> Wrap(ExecErr, "failed to start dnsmasq"), log |-> <<create, run>>,
              live |-> {}]
        ELSE [err |-> Nil, log |-> <<create, run>>, live |-> {}]

\* startHostapd: hostapd is run with CombinedOutput, which returns when the
\* process has exited
startHostapd(configPath) ==
    [err |-> Nil, log |-> <<Exec(<<"hostapd", configPath>>)>>, live |-> {}]

\* Start of the direct-daemon backend: the service as the call leaves it
HostapdStart(h, cfg, fault) ==
    LET v == HostapdValidate(ValidatedConfig(h, cfg), h.version)
        held == [h EXCEPT !.log = <<>>]
        p == HostapdPrepareInterface(cfg, h.version, fault)
        g == generateHostapdConfig(h)
        n == HostapdConfigureNetwork(cfg, fault)
        d == HostapdStartDNSMasq(h, fault)
        a == startHostapd(g.configPath)
        withP == [held EXCEPT !.config = cfg, !.log = p.log]
        withG == [withP EXCEPT !.log = @ \o g.log, !.configPath = g.configPath]
        withN == [withG EXCEPT !.log = @ \o n.log]
        withD == [withN EXCEPT !.log = @ \o d.log, !.live = @ \cup d.live]
        withA == [withD EXCEPT !.log = @ \o a.log, !.live = @ \cup a.live]
    IN  IF h.running THEN [held EXCEPT !.ret = ErrServiceAlreadyRunning]
        ELSE IF v # Nil
            THEN [held EXCEPT !.ret = Wrap(v, "invalid access point configuration")]
        ELSE IF p.err # Nil
            THEN [withP EXCEPT !.ret = Wrap(p.err, "failed to prepare interface")]
        ELSE IF g.err # Nil
            THEN [withG EXCEPT !.ret = Wrap(g.err, "failed to generate hostapd config")]
        ELSE IF n.err # Nil
            THEN [withN EXCEPT !.ret = Wrap(n.err, "failed to configure network")]
        ELSE IF d.err # Nil
            THEN [withD EXCEPT !.ret = Wrap(d.err, "failed to start dnsmasq")]
        ELSE IF a.err # Nil
            THEN [withA EXCEPT !.ret = Wrap(a.err, "failed to start hostapd")]
        ELSE [withA EXCEPT !.running = TRUE, !.ret = Nil]

\* Stop of the direct-daemon backend: pkill and os.Remove by the config path,
\* and in the latest version pkill of dnsmasq by the interface
HostapdStop(h) ==
    LET hostapdLog == <<Exec(<<"pkill", "-f", "hostapd.*" \o h.configPath>>),
                        FileOp("os.Remove", 0)>>
        dnsmasqLog == IF h.version = Latest
                      THEN <<Exec(<<"pkill", "-f", "dnsmasq.*" \o h.config.Interface>>)>>
                      ELSE <<>>
    IN  IF ~h.running THEN [h EXCEPT !.ret = Nil, !.log = <<>>]
        ELSE [h EXCEPT !.running = FALSE, !.ret = Nil,
                       !.live = IF h.version = Latest THEN {} ELSE @ \ {"hostapd"},
                       !.log = hostapdLog \o dnsmasqLog]

----------------------------------------------------------------------------
(* The specification of the two backends: one caller makes the same sequence
   of Start and Stop calls, with the same field values and against the same
   faults of the system, on a service of each backend. *)

BackendConfigs == {CfgWpa2, CfgOpen, CfgE2E}
BackendChannels == {0, 6}
BackendFaults == {"none", "managed", "ufw", "nat", "launch"}

InitBackends ==
    /\ running = FALSE
    /\ config = ZeroConfig
    /\ dnsmasqConfigPath = 0
    /\ dnsmasqCmd = NilCmd
    /\ profiles = {}
    /\ active = {}
    /\ files = {}
    /\ procs = {}
    /\ lastOp = "none"
    /\ arg = ZeroConfig
    /\ ret = Nil
    /\ log = <<>>
    /\ lastRun = NoRun
    /\ startedSinceStop = FALSE
    /\ startCalled = FALSE
    /\ prev = [op |-> "none", acted |-> FALSE]
    /\ inStart = {}
    /\ route = RouteEth
    /\ out = <<>>
    /\ input = [channel |-> 0, fault |-> "none"]
    /\ hostapd \in {NewHostAPDService(version) : version \in HostapdVersions}

\* the fault as the network-manager backend's Start meets it
FailPointOf(fault) == IF fault \in {"managed", "launch"} THEN fault ELSE "none"
FailingRules(fault, kind) == IF fault = kind THEN 1..5 ELSE {}

\* Start(cfg) on both services; input is the channel and the fault of the call
BackendsStart(cfg, channel, fault) ==
    /\ \E r \in {StartResult(cfg, FailPointOf(fault), FailingRules(fault, "ufw"),
                             FailingRules(fault, "nat"))} :
        /\ running' = r.running
        /\ config' = r.config
        /\ dnsmasqConfigPath' = r.path
        /\ dnsmasqCmd' = r.cmd
        /\ profiles' = r.profiles
        /\ active' = r.active
        /\ files' = r.files
        /\ procs' = r.procs
        /\ lastRun' = r.lastRun
        /\ startedSinceStop' = (startedSinceStop \/ (r.ret = Nil))
        /\ ret' = r.ret
        /\ log' = r.log
    /\ startCalled' = TRUE
    /\ prev' = [op |-> lastOp, acted |-> log # <<>>]
    /\ lastOp' = "Start"
    /\ arg' = cfg
    /\ input' = [channel |-> channel, fault |-> fault]
    /\ hostapd' = HostapdStart(hostapd, HostapdConfig(cfg, channel), fault)
    /\ UNCHANGED <<inStart, route, out>>

\* Stop() on both services; every teardown command of the network-manager
\* backend succeeds
BackendsStop ==
    /\ \E r \in {StopResult(TRUE, TRUE, TRUE, TRUE)} :
        /\ running' = r.running
        /\ dnsmasqConfigPath' = r.path
        /\ dnsmasqCmd' = r.cmd
        /\ profiles' = r.profiles
        /\ active' = r.active
        /\ files' = r.files
        /\ procs' = r.procs
        /\ ret' = r.ret
        /\ log' = r.log
    /\ startedSinceStop' = FALSE
    /\ prev' = [op |-> lastOp, acted |-> log # <<>>]
    /\ lastOp' = "Stop"
    /\ arg' = ZeroConfig
    /\ hostapd' = HostapdStop(hostapd)
    /\ UNCHANGED <<config, lastRun, startCalled, inStart, route, out, input>>

BackendsStartCall ==
    \E cfg \in BackendConfigs, channel \in BackendChannels, fault \in BackendFaults :
        BackendsStart(cfg, channel, fault)

NextBackends == BackendsStartCall \/ BackendsStop

SpecBackends == InitBackends /\ [][NextBackends]_vars

----------------------------------------------------------------------------
(* What the claims speak of *)

\* hostAPDService.IsRunning
IsRunning == running

\* IsRunning() of a service NewAPService has just made
FreshIsRunning == FALSE

Range(seq) == {seq[i] : i \in DOMAIN seq}

\* the validity condition as the specification words it
ValidCond(c) ==
    /\ c.Name # "" /\ c.Interface # "" /\ c.SSID # ""
    /\ c.CountryCode # "" /\ c.Gateway # "" /\ c.DHCPRange # ""
    /\ (c.Security # "open" => c.Password # "")
    /\ (c.Security = "wpa2" => Len(c.Password) >= 8)

\* the ten rule applications of configureNetwork, in order
RuleCmds(cfg) ==
    [i \in UfwIdx |->
        UfwApply(GetRequiredFirewallRules(cfg.Interface, cfg.PortalPort)[i], cfg.Interface)]
    \o [i \in NatIdx |-> IPTablesApply(CreateIPTablesRules(cfg.Interface, cfg.PortalPort)[i])]

\* the last call was a Start that failed in one of its steps
StepFailure == lastOp = "Start" /\ ret.base = "exec"

\* ... after changing the system: the hotspot profile was created, rules were
\* installed, or the dnsmasq temp config was written
PartialStart ==
    /\ StepFailure
    /\ \/ Exec(<<"nmcli", "connection", "up", config.Name>>) \in Range(log)
       \/ lastRun.network = "ok" /\ lastRun.ufwFailed + lastRun.natFailed < 10
       \/ \E i \in DOMAIN log : log[i].kind = "file" /\ log[i].ref \in files

----------------------------------------------------------------------------
(* C1..C10: the lifecycle of the access-point service *)

\* C1: IsRunning() is true only if the most recent Start that ran its steps
\* had interface preparation, hotspot creation (connection add and up) and the
\* dnsmasq launch all succeed, and what they made is then in place; a failure
\* of any of the three never leaves the service Running.
C1_RunningOnlyAfterFullStart ==
    /\ IsRunning =>
        /\ lastRun.prepare = "ok" /\ lastRun.hotspot = "ok" /\ lastRun.dnsmasq = "ok"
        /\ config.Name \in profiles /\ config.Name \in active
        /\ dnsmasqCmd.Process \in procs
        /\ dnsmasqConfigPath \in files
    /\ StepFailure => ~IsRunning

C1_Witness == IsRunning /\ lastOp = "Start" /\ ret = Nil /\ prev.op = "Stop"

\* C2: once a Start has succeeded and no Stop was called since, another Start,
\* with any config, returns ErrServiceAlreadyRunning, issues no command and
\* leaves config, process handle, temp path and running flag (and the system)
\* as they were.
C2_SecondStartRejected ==
    [][ (startedSinceStop /\ lastOp' = "Start")
            => /\ ret' = ErrServiceAlreadyRunning
               /\ log' = <<>>
               /\ UNCHANGED <<svc, world>> ]_vars

C2_Witness ==
    /\ lastOp = "Start" /\ ret = ErrServiceAlreadyRunning /\ log = <<>>
    /\ prev.op = "Start" /\ startedSinceStop /\ ValidCond(arg) /\ arg # config

\* C3 as stated: whenever the config passed to Start fails validation, Start
\* returns an error wrapping ErrInvalidAPConfig, before any command or file,
\* with config and running flag unchanged.
C3_Original ==
    [][ (lastOp' = "Start" /\ ~ValidCond(arg'))
            => /\ Is(ret', ErrInvalidAPConfig)
               /\ log' = <<>>
               /\ UNCHANGED <<config, running>> ]_vars

\* C3 as amended: a Start with a config that fails validation issues no command,
\* creates no file and changes nothing; it returns an error wrapping
\* ErrInvalidAPConfig when the service is not running, and
\* ErrServiceAlreadyRunning when it is.
C3_InvalidConfigRejected ==
    [][ (lastOp' = "Start" /\ ~ValidCond(arg'))
            => /\ IF running THEN ret' = ErrServiceAlreadyRunning
                  ELSE Is(ret', ErrInvalidAPConfig)
               /\ log' = <<>>
               /\ UNCHANGED <<svc, world>> ]_vars

C3_Witness ==
    /\ lastOp = "Start" /\ arg = CfgOpenShort
    /\ arg.Security = "wpa2" /\ arg.Password = "short"
    /\ Is(ret, ErrInvalidAPConfig) /\ log = <<>> /\ config = CfgWpa2 /\ ~running

C5_Original ==
    (lastOp = "Start" /\ arg = CfgE2E /\ ~Is(ret, ErrServiceAlreadyRunning))
        => Validate(arg) = Nil /\ ~Is(ret, ErrInvalidAPConfig)

\* C5 as amended: that config is rejected by validation, its Name being empty
\* ("name is required"), and Start issues nothing; with Name and CountryCode
\* set as well it passes validation and Start goes on to its first step.
C5_E2EConfigNeedsName ==
    (lastOp = "Start" /\ ~Is(ret, ErrServiceAlreadyRunning)) =>
        /\ arg = CfgE2E =>
            /\ Is(ret, ErrInvalidAPConfig)
            /\ ret.chain = <<"invalid access point configuration", "name is required">>
                            \o ErrInvalidAPConfig.chain
            /\ log = <<>>
        /\ arg = CfgOpen =>
            /\ ~Is(ret, ErrInvalidAPConfig)
            /\ config = CfgOpen
            /\ log # <<>>

C5_Witness == lastOp = "Start" /\ arg = CfgOpen /\ ret = Nil /\ IsRunning

\* C6: after a Start that failed partway, with the hotspot profile created,
\* rules installed or the temp config written, the next Stop runs teardown
\* steps; it is not a no-op.
C6_StopCleansUpFailedStart ==
    [][ (PartialStart /\ lastOp' = "Stop") => log' # <<>> ]_vars

C8_RuleFailuresNotFatal ==
    (lastOp = "Start" /\ lastRun.hotspot = "ok") =>
        /\ lastRun.network = "ok"
        /\ Len(log) > 15
        /\ SubSeq(log, 6, 15) = RuleCmds(config)
        /\ lastRun.dnsmasq # "skipped"
        /\ lastRun.dnsmasq = "ok" => (IsRunning /\ ret = Nil)

C8_Witness ==
    /\ lastOp = "Start" /\ IsRunning
    /\ lastRun.ufwFailed = 2 /\ lastRun.natFailed = 5

\* C9: Stop on a service on which Start was never called returns nil, issues no
\* command, removes no file and changes no field.
C9_StopOnFresh ==
    [][ (~startCalled /\ lastOp' = "Stop")
            => /\ ret' = Nil
               /\ log' = <<>>
               /\ UNCHANGED <<svc, world>> ]_vars

C9_Witness == lastOp = "Stop" /\ ~startCalled /\ ret = Nil /\ log = <<>>

\* C10: a Stop that directly follows a Stop returns nil, issues no command and
\* changes nothing: two Stops in a row leave what one leaves.
C10_StopIdempotent ==
    [][ (lastOp = "Stop" /\ lastOp' = "Stop")
            => /\ ret' = Nil
               /\ log' = <<>>
               /\ UNCHANGED <<svc, world>> ]_vars

C10_Witness ==
    /\ lastOp = "Stop" /\ prev.op = "Stop" /\ prev.acted
    /\ ret = Nil /\ log = <<>> /\ ~IsRunning

----------------------------------------------------------------------------
(* C11..C14: the teardown of Stop *)

\* the operations of the three teardown steps of a Stop on the service as it is
DnsmasqStopOps ==
    {ProcOp("Process.Kill", dnsmasqCmd.Process), ProcOp("Wait", dnsmasqCmd.Process),
     ExecOn(<<"pkill", "-f", "dnsmasq.*", "dnsmasqConfigPath">>, dnsmasqConfigPath),
     FileOp("os.Remove", dnsmasqConfigPath)}

HotspotStopOps ==
    {Exec(<<"nmcli", "connection", "down", config.Name>>),
     Exec(<<"nmcli", "connection", "delete", config.Name>>)}

RuleStopOps ==
    {IPTablesApply(CleanupIPTablesRules(config.Interface, config.PortalPort)[i]) : i \in NatIdx}

\* a Stop was called on the running service in this step
StopOnRunning == running /\ lastOp' \in {"Stop", "StopWait"}

\* a Stop called on the running service returned in this step
StopReturned == running /\ lastOp' = "Stop"

\* C11: when Stop is called on a Running service, the operations of all three
\* teardown steps (dnsmasq stop and temp-config removal, hotspot down and
\* delete, NAT rule removal) are issued whichever of them fail, Stop returns
\* nil, and IsRunning() is false afterwards.
C11_TeardownRunsAllSteps ==
    [][ StopOnRunning
            => /\ DnsmasqStopOps \cup HotspotStopOps \cup RuleStopOps \subseteq Range(log')
               /\ lastOp' = "Stop" /\ ret' = Nil
               /\ ~running' ]_vars

\* C12: a Stop on a Running service that returns has issued the dnsmasq
\* operations (kill, wait, pkill, temp-config removal) first, then the hotspot
\* connection down and delete, then the rule removals; no operation of a later
\* step comes before one of an earlier step.
C12_TeardownReverseOrder ==
    [][ StopReturned
            => /\ Range(log') = DnsmasqStopOps \cup HotspotStopOps \cup RuleStopOps
               /\ \A i, j \in DOMAIN log' :
                    \/ log'[i] \in DnsmasqStopOps /\ log'[j] \in HotspotStopOps \cup RuleStopOps
                    \/ log'[i] \in HotspotStopOps /\ log'[j] \in RuleStopOps
                    => i < j ]_vars

C12_Witness ==
    /\ lastOp = "Stop" /\ prev.op = "Start" /\ Len(log) = 11
    /\ log[1].kind = "proc" /\ log[5].argv[3] = "down" /\ log[7].argv[2] = "iptables-legacy"

\* C13: when Stop runs with a live dnsmasq child, it requests the child's
\* termination and waits for its exit before it removes the temp config file;
\* a Stop that has returned leaves no child process of the service alive (a
\* Stop whose wait has not ended has not returned and has removed nothing).
C13_StopAwaitsChild ==
    [][ /\ (StopOnRunning /\ dnsmasqCmd.Process \in procs)
            => LET kill == ProcOp("Process.Kill", dnsmasqCmd.Process)
                   wait == ProcOp("Wait", dnsmasqCmd.Process)
                   remove == FileOp("os.Remove", dnsmasqConfigPath)
               IN  /\ log'[1] = kill /\ log'[2] = wait
                   /\ \A i \in DOMAIN log' : log'[i] = remove => i > 2
                   /\ lastOp' = "Stop" => dnsmasqCmd.Process \notin procs'
                   /\ lastOp' = "StopWait" => (remove \notin Range(log') /\ files' = files)
        /\ lastOp' = "Stop" => procs' = {} ]_vars

C13_Witness ==
    /\ lastOp = "Stop" /\ prev.op = "Start" /\ procs = {} /\ files = {}
    /\ Len(log) = 11
    /\ log[1].argv = <<"Process.Kill">> /\ log[2].argv = <<"Wait">>
    /\ log[4].argv = <<"os.Remove">>

\* op is a ufw command on the rule r: one that names its direction, interface,
\* port and protocol
IsUfwCommandOn(op, r, iFace) ==
    /\ op.kind = "exec" /\ Len(op.argv) > 1 /\ op.argv[2] = "ufw"
    /\ Range(ToArgs(r, iFace)) \ {"allow"} \subseteq Range(op.argv)

\* C14: a Stop that follows a Start in which every rule application succeeded
\* has executed the removal of every NAT rule and of every firewall allow rule
\* that Start installed.
C14_StopRemovesEveryRule ==
    [][ (StopReturned /\ lastRun.ufwFailed = 0 /\ lastRun.natFailed = 0)
            => /\ RuleStopOps \subseteq Range(log')
               /\ \A i \in UfwIdx :
                    \E k \in DOMAIN log' :
                        IsUfwCommandOn(log'[k],
                            GetRequiredFirewallRules(config.Interface, config.PortalPort)[i],
                            config.Interface) ]_vars

----------------------------------------------------------------------------
(* C15: overlapping Start calls *)

\* a goroutine calls Start, with a valid config, in this step while another
\* goroutine's Start has passed the running check and has not returned
OverlappingStart ==
    /\ inStart # {}
    /\ ValidCond(arg')
    /\ inStart \subseteq inStart'
    /\ lastOp' \in {"Start", "StartEnter"}

\* C15: when two Start calls on one instance overlap, at most one of them
\* passes the already-running check and goes on to change the system; the
\* other returns ErrServiceAlreadyRunning and issues no command.
C15_OverlappingStartRefused ==
    [][ OverlappingStart
            => /\ lastOp' = "Start"
               /\ ret' = ErrServiceAlreadyRunning
               /\ log' = <<>>
               /\ inStart' = inStart ]_vars

\* a Stop has returned while a Start was between its checks and its steps, and
\* in this step that Start runs its steps and returns
StartOutlivesStop ==
    /\ lastOp = "Stop"
    /\ inStart # {}
    /\ lastOp' = "Start"
    /\ inStart' # inStart

\* C40: under overlapping Start and Stop calls, once a Stop has returned
\* IsRunning() stays false and no hotspot and no dnsmasq process of the
\* instance is live until a Start called after that return succeeds; a Start
\* in progress when Stop ran cannot make the service Running afterwards.
C40_StopIsFinal ==
    [][ StartOutlivesStop => (~IsRunning' /\ active' = {} /\ procs' = {}) ]_vars

----------------------------------------------------------------------------
(* C16..C20: the rule lists and the hotspot command *)

\* the builder is called in this step: out' is what it returns for arg and the
\* default route as it is
Called(builder) == lastOp' = builder /\ route' = route

\* cleanup is create with -A replaced by -D, rule by rule, and nothing else
\* changed
Mirror(create, cleanup) ==
    /\ Len(cleanup) = Len(create)
    /\ \A i \in DOMAIN create :
        /\ Len(cleanup[i]) = Len(create[i])
        /\ \A k \in DOMAIN create[i] :
            cleanup[i][k] = IF create[i][k] = "-A" THEN "-D" ELSE create[i][k]

\* C16: for every interface name and portal port, the list CleanupIPTablesRules
\* returns has the length of the list CreateIPTablesRules returns, and its i-th
\* rule is the i-th create rule with -A replaced by -D; in both iptables.go.
C16_CleanupMirrorsCreate ==
    [][ /\ Called("CleanupIPTablesRules")
            => Mirror(CreateIPTablesRules(arg.Interface, arg.PortalPort), out')
        /\ Called("CleanupIPTablesRules005")
            => Mirror(CreateIPTablesRules005(arg.Interface, arg.PortalPort), out') ]_vars

RuleBuilders ==
    {"GetRequiredFirewallRules", "CreateIPTablesRules", "CleanupIPTablesRules",
     "CreateIPTablesRules005", "CleanupIPTablesRules005"}

\* C17: a rule builder called again with the same interface name and portal
\* port returns the same rules in the same order, whatever changed between the
\* two calls, the default route of the host included.
C17_RuleBuildersDeterministic ==
    [][ (lastOp \in RuleBuilders /\ lastOp' = lastOp /\ arg' = arg) => out' = out ]_vars

\* a firewall rule as ufw is given it
Allow(r) ==
    [dir |-> DirectionString(r.Direction), proto |-> ProtocolToString(r.Protocol),
     port |-> r.Port, iface |-> r.Interface]

\* C18: GetRequiredFirewallRules(i, p) returns exactly five allow rules, each on
\* interface i: in UDP/67, out UDP/68, in UDP/53, in TCP/53 and in TCP/p.
C18_RequiredFirewallRules ==
    lastOp = "GetRequiredFirewallRules" =>
        /\ Len(out) = 5
        /\ {Allow(out[k]) : k \in DOMAIN out}
             = {[dir |-> "in", proto |-> "udp", port |-> "67", iface |-> arg.Interface],
                [dir |-> "out", proto |-> "udp", port |-> "68", iface |-> arg.Interface],
                [dir |-> "in", proto |-> "udp", port |-> "53", iface |-> arg.Interface],
                [dir |-> "in", proto |-> "tcp", port |-> "53", iface |-> arg.Interface],
                [dir |-> "in", proto |-> "tcp", port |-> arg.PortalPort,
                 iface |-> arg.Interface]}
        /\ \A k \in DOMAIN out :
            ToArgs(out[k], arg.Interface)
                = <<"allow", Allow(out[k]).dir, "on", arg.Interface, "to", "any",
                    "port", Allow(out[k]).port, "proto", Allow(out[k]).proto>>

C18_Witness ==
    /\ lastOp = "GetRequiredFirewallRules" /\ arg.Interface = "wlan1"
    /\ arg.PortalPort = "8080" /\ Len(out) = 5 /\ out[5].Port = "8080"

\* the interface of the host's default route, when `ip route show default`
\* names one
HasDefaultRoute == ~route.err /\ Len(route.fields) >= 5 /\ route.fields[4] = "dev"
DefaultRouteInterface == route.fields[5]

\* C19: the list of CreateIPTablesRules(i, p) contains the nat PREROUTING
\* redirect of TCP/80 on i to port p, the INPUT accept of TCP/p on i, a FORWARD
\* accept for traffic arriving on i, and a nat POSTROUTING MASQUERADE rule on
\* the default-route interface of the host; in both iptables.go.
C19_CreateRulesContent ==
    [][ (Called("CreateIPTablesRules") \/ Called("CreateIPTablesRules005")) =>
        /\ <<"-t", "nat", "-A", "PREROUTING", "-i", arg.Interface, "-p", "tcp",
              "--dport", "80", "-j", "REDIRECT", "--to-ports", arg.PortalPort>>
                \in Range(out')
        /\ <<"-A", "INPUT", "-i", arg.Interface, "-p", "tcp", "--dport", arg.PortalPort,
              "-j", "ACCEPT">> \in Range(out')
        /\ <<"-A", "FORWARD", "-i", arg.Interface, "-j", "ACCEPT">> \in Range(out')
        /\ \E d \in {"eth0", "eth1", "wlan1"} :
            /\ HasDefaultRoute => d = DefaultRouteInterface
            /\ <<"-t", "nat", "-A", "POSTROUTING", "-o", d, "-j", "MASQUERADE">>
                    \in Range(out') ]_vars

WifiSecKeys ==
    {"wifi-sec.key-mgmt", "wifi-sec.proto", "wifi-sec.pairwise", "wifi-sec.group",
     "wifi-sec.psk"}

\* the arguments of the hotspot command after the address: the security settings
SecurityArgs(args) == SubSeq(args, 19, Len(args))

\* C20: for a config that passes validation, the hotspot command has no
\* wifi-sec.* argument when Security is "open", with or without a Password, and
\* has key-mgmt wpa-psk, proto rsn, pairwise ccmp, group ccmp and the password
\* as psk when Security is "wpa2"; in both apd_service.go.
C20_HotspotSecurityArgs ==
    lastOp \in {"createHotspot", "createHotspot004"} =>
        /\ arg.Security = "open" => Range(SecurityArgs(out)) \cap WifiSecKeys = {}
        /\ arg.Security = "wpa2" =>
            SecurityArgs(out)
                = <<"wifi-sec.key-mgmt", "wpa-psk", "wifi-sec.proto", "rsn",
                    "wifi-sec.pairwise", "ccmp", "wifi-sec.group", "ccmp",
                    "wifi-sec.psk", arg.Password>>

\* the pre-shared keys a hotspot command is given
PskArgs(args) ==
    {SecurityArgs(args)[i + 1] :
        i \in {k \in 1..(Len(SecurityArgs(args)) - 1) : SecurityArgs(args)[k] = "wifi-sec.psk"}}

\* C37: for every config that passes Validate(), a wifi-sec.psk argument that
\* createHotspot passes to the hotspot command is at least 8 characters long,
\* whatever the Security of the config.
C37_PskLength ==
    lastOp = "createHotspot" => \A psk \in PskArgs(out) : Len(psk) >= MinWPA2PasswordLen

\* C35: after any sequence of Start and Stop calls on one instance, whenever
\* IsRunning() is false no temporary dnsmasq config file that the instance
\* created still exists, also after a Start that failed while rendering the
\* config or launching dnsmasq.
C35_NoTempFileWhenStopped ==
    (lastOp \in {"Start", "Stop"} /\ ~IsRunning) => files = {}

\* the commands of Stop's teardown that name the hotspot connection, the
\* interface or the portal port of a config
TeardownCommands(cfg) ==
    {Exec(<<"nmcli", "connection", "down", cfg.Name>>),
     Exec(<<"nmcli", "connection", "delete", cfg.Name>>)}
    \cup {IPTablesApply(r) : r \in Range(CleanupIPTablesRules(cfg.Interface, cfg.PortalPort))}

\* the last call was a Start that was refused at one of its two checks
Refused(err) == Is(err, ErrServiceAlreadyRunning) \/ Is(err, ErrInvalidAPConfig)

\* C36: in any sequence of Start and Stop calls, the connection name, the
\* interface and the portal port in Stop's teardown commands are those of the
\* config passed to the Start that made the service Running: that Start
\* stores its config, no call changes the stored config while the service
\* stays Running, a Start refused with ErrServiceAlreadyRunning or a
\* validation error never changes it, and Stop's commands name the stored one.
C36_TeardownUsesRunningConfig ==
    [][ /\ (lastOp' = "Start" /\ ~IsRunning /\ IsRunning') => config' = arg'
        /\ (IsRunning /\ IsRunning') => config' = config
        /\ (lastOp' = "Start" /\ Refused(ret')) => config' = config
        /\ (lastOp' = "Stop" /\ IsRunning)
                => {e \in Range(log') : e.kind = "exec" /\ e.ref = 0}
                        = TeardownCommands(config) ]_vars

\* a Stop tears down the hotspot of the running Start, after a Start with
\* another config was refused
C36_Witness ==
    /\ lastOp = "Stop" /\ ~IsRunning /\ log # <<>>
    /\ prev = [op |-> "Start", acted |-> FALSE]
    /\ config = CfgUpper
    /\ Exec(<<"nmcli", "connection", "down", CfgUpper.Name>>) \in Range(log)
    /\ IPTablesApply(CleanupIPTablesRules("wlan1", "9090")[1]) \in Range(log)

----------------------------------------------------------------------------
(* C21, C22: the choice of the access-point interface *)

\* the list GetBestAPInterface enumerates
Enumerated == ListWirelessInterfaces(input.interfaces)

\* the first interface of the list, in its order, that satisfies P
FirstWhere(list, P(_)) ==
    {list[i] : i \in {k \in DOMAIN list : P(list[k]) /\ \A j \in 1..(k - 1) : ~P(list[j])}}

IsFreeAP(i) == i.SupportAP /\ ~i.InUse
IsAP(i) == i.SupportAP

BestCalled == lastOp = "GetBestAPInterface" /\ ~input.err

\* C21: when the enumerated list has an AP-capable interface that is not in
\* use, GetBestAPInterface returns a nil error and the first interface, in
\* enumeration order, that is AP-capable and not in use; never one in use.
C21_BestIsFirstFreeAP ==
    (BestCalled /\ \E i \in DOMAIN Enumerated : IsFreeAP(Enumerated[i])) =>
        /\ ret = Nil
        /\ {out[k] : k \in DOMAIN out} = FirstWhere(Enumerated, IsFreeAP)
        /\ Len(out) = 1
        /\ ~out[1].InUse

C21_Witness ==
    /\ BestCalled /\ ret = Nil /\ Len(out) = 1 /\ out[1].Name = "wlan2"
    /\ Len(Enumerated) = 3 /\ Enumerated[1].SupportAP /\ Enumerated[1].InUse
    /\ ~Enumerated[2].SupportAP /\ ~Enumerated[2].InUse

\* C22: GetBestAPInterface returns (nil, ErrNoAccessPointFound) exactly when
\* no enumerated interface is AP-capable, and the first AP-capable interface
\* with ErrAllAccessPointsInUse exactly when there is an AP-capable interface
\* and every AP-capable interface is in use.
C22_BestErrors ==
    BestCalled =>
        /\ (out = <<>> /\ ret = ErrNoAccessPointFound)
                <=> (\A i \in DOMAIN Enumerated : ~IsAP(Enumerated[i]))
        /\ ret = ErrNoAccessPointFound => out = <<>>
        /\ (ret = ErrAllAccessPointsInUse /\ Len(out) = 1
             /\ {out[k] : k \in DOMAIN out} = FirstWhere(Enumerated, IsAP))
                <=> /\ \E i \in DOMAIN Enumerated : IsAP(Enumerated[i])
                    /\ \A i \in DOMAIN Enumerated :
                            IsAP(Enumerated[i]) => Enumerated[i].InUse
        /\ ret = ErrAllAccessPointsInUse => Len(out) = 1

C22_Witness ==
    /\ BestCalled /\ ret = ErrAllAccessPointsInUse /\ Len(out) = 1
    /\ out[1].Name = "wlan2" /\ out[1].InUse
    /\ Len(Enumerated) = 2 /\ ~Enumerated[1].SupportAP /\ Len(input.interfaces) = 3
    /\ Enumerated[2].Name = "wlan2" /\ Enumerated[2].SupportAP

----------------------------------------------------------------------------
(* C23..C25: the scan parser *)

\* a line a record is due for
ValidLine(l) ==
    /\ \/ l.sep = ":" /\ Len(l.fields) >= 9
       \/ l.sep = " " /\ Len(l.fields) >= 7
    /\ l.fields[1] \notin {"", "--"}

\* the lines of the input a record is due for, in the order of the input
ValidLines == SelectSeq(input, ValidLine)

Parsed == lastOp = "parseNetworkList"

\* the integer the text of a signal field stands for: the digits, signed,
\* with or without the unit
SignalValues(text) ==
    {dbm \in (0 - MaxDbm)..MaxDbm :
        text \in {ToString(dbm), ToString(dbm) \o "dBm", ToString(dbm) \o " dBm"}}

C24_ValidLinesInOrder ==
    Parsed =>
        /\ ret = Nil
        /\ Len(out) = Len(ValidLines)
        /\ \A k \in DOMAIN ValidLines :
                /\ out[k].SSID = ValidLines[k].fields[1]
                /\ out[k].BSSID = ValidLines[k].fields[2]

C24_Witness ==
    /\ Parsed /\ Len(input) = 3 /\ Len(out) = 1
    /\ ~ValidLine(input[1]) /\ input[1].fields # <<>> /\ input[1].fields[1] = ""
    /\ ValidLine(input[2])
    /\ ~ValidLine(input[3]) /\ Len(input[3].fields) = 1
    /\ out[1].SSID = "Home"

\* C25: the Security of every record is "none" when the ninth field of its
\* line is present and is empty or "--", the text of the ninth field when it
\* is present and anything else, and "unknown" when the line has fewer than
\* nine fields.
C25_Security ==
    Parsed =>
        \A k \in DOMAIN ValidLines :
            LET fields == ValidLines[k].fields
            IN  /\ k \in DOMAIN out
                /\ (Len(fields) >= 9 /\ fields[9] \in {"", "--"}) => out[k].Security = "none"
                /\ (Len(fields) >= 9 /\ fields[9] \notin {"", "--"}) =>
                        out[k].Security = fields[9]
                /\ Len(fields) < 9 => out[k].Security = "unknown"

C25_Witness ==
    /\ Parsed /\ Len(out) = 3
    /\ out[1].Security = "unknown" /\ out[2].Security = "none" /\ out[3].Security = "WPA3"
    /\ input[2].fields[9] = "--"

----------------------------------------------------------------------------
(* C33, C34: the fields of a scan line *)

\* a line of nine colon-delimited fields whose BSSID is a MAC address written
\* with colons: six pieces for the BSSID, fourteen in all
MacLine(l) == l.sep = ":" /\ Len(l.fields) = 14

\* C33: for a scan line of the nine colon-delimited fields SSID, BSSID, mode,
\* channel, frequency, rate, signal, bars, security whose BSSID is a MAC
\* address with colons, the BSSID, Channel, Frequency, Signal and Security of
\* the record are those of the line.
C33_MacAddressLine ==
    Parsed =>
        \A k \in DOMAIN ValidLines :
            LET pieces == ValidLines[k].fields
            IN  MacLine(ValidLines[k]) =>
                    /\ k \in DOMAIN out
                    /\ out[k].BSSID = Join(SubSeq(pieces, 2, 7), ":")
                    /\ out[k].Channel = pieces[9]
                    /\ out[k].Frequency = pieces[10]
                    /\ \A s \in SignalValues(pieces[12]) :
                            (-90 < s /\ s < -30) =>
                                /\ out[k].Signal * 60 <= (s + 90) * 100
                                /\ (s + 90) * 100 < (out[k].Signal + 1) * 60
                    /\ out[k].Security = pieces[14]

\* the occurrences of the character c in text
RECURSIVE Occurrences(_, _)
Occurrences(text, c) ==
    IF text = "" THEN 0
    ELSE (IF SubSeq(text, 1, 1) = c THEN 1 ELSE 0)
         + Occurrences(SubSeq(text, 2, Len(text)), c)

\* the words of text: the places where a character that is not white space
\* stands first or follows white space
WordCount(text) ==
    Cardinality({i \in 1..Len(text) :
                    /\ SubSeq(text, i, i) \notin {" ", "\t", "\r", "\n"}
                    /\ i = 1 \/ SubSeq(text, i - 1, i - 1) \in {" ", "\t", "\r", "\n"}})

ColonFieldCount(text) == Occurrences(text, ":") + 1

\* a record is due for the line by the rule of C34
Emitted(l) ==
    /\ WordCount(l.text) > 0
    /\ ColonFieldCount(l.text) >= 9 \/ WordCount(l.text) >= 7
    /\ l.fields[1] \notin {"", "--"}

EmittedLines == SelectSeq(input, Emitted)

\* C34: parseNetworkList reads a line by white space only when the line has
\* fewer than 9 colon-delimited fields, and emits a record for a non-blank
\* line exactly when the line has at least 9 colon-delimited fields or at
\* least 7 white-space-delimited fields and its first field is neither empty
\* nor "--"; every other line is skipped and the batch goes on.
C34_LineSplitRule ==
    Parsed =>
        /\ \A i \in DOMAIN input :
                WordCount(input[i].text) > 0 =>
                    /\ input[i].sep = ":" <=> ColonFieldCount(input[i].text) >= 9
                    /\ input[i].sep = " " => Len(input[i].fields) = WordCount(input[i].text)
        /\ Len(out) = Len(EmittedLines)
        /\ \A k \in DOMAIN EmittedLines :
                /\ out[k].SSID = EmittedLines[k].fields[1]
                /\ out[k].BSSID = EmittedLines[k].fields[2]
                /\ out[k].Channel = EmittedLines[k].fields[4]

C34_Witness ==
    /\ Parsed /\ Len(input) = 1 /\ Len(out) = 1
    /\ WordCount(input[1].text) >= 7 /\ ColonFieldCount(input[1].text) >= 9
    /\ out[1].SSID = "Loft on the top floor of the house"

----------------------------------------------------------------------------
(* C26: the scan *)

Scanned == lastOp = "ListAvailableNetworks" /\ input.nmcli

\* the listing queries a call issued, in order
IsListQuery(e) == e.kind = "exec" /\ "list" \in Range(e.argv)
ListQueries == SelectSeq(log, IsListQuery)

IsQualified(e) == "ifname" \in Range(e.argv)

\* C26: with nmcli present, ListAvailableNetworks returns an error only when
\* the listing query fails and, for a non-empty interface name, the retry
\* without the interface fails too; a failed rescan causes no error; the retry
\* is issued at most once, and only after the qualified query failed.
C26_ScanErrors ==
    Scanned =>
        /\ ret # Nil => (~input.listOK /\ (input.interfaceName # "" => ~input.retryOK))
        /\ (~input.rescanOK /\ input.listOK) => ret = Nil
        /\ Len(ListQueries) \in {1, 2}
        /\ IsQualified(ListQueries[1]) <=> input.interfaceName # ""
        /\ Len(ListQueries) = 2 =>
                /\ IsQualified(ListQueries[1])
                /\ ~input.listOK
                /\ ~IsQualified(ListQueries[2])

C26_Witness ==
    /\ Scanned /\ input.interfaceName = "wlan0"
    /\ ~input.rescanOK /\ ~input.listOK /\ input.retryOK
    /\ Len(ListQueries) = 2 /\ ret = Nil /\ Len(out) = 1 /\ out[1].SSID = "Guest"

----------------------------------------------------------------------------
(* C27: the connect *)

Connected == lastOp = "ConnectToNetwork"

IsConnect(e) == e.kind = "exec" /\ "connect" \in Range(e.argv)
IsDown(e) == e.kind = "exec" /\ Len(e.argv) = 4 /\ e.argv[3] = "down"
IsShowActive(e) == e.kind = "exec" /\ "--active" \in Range(e.argv)

\* the teardown of the call failed: the listing, or a `connection down`
TeardownFailed ==
    \/ ~input.showOK
    \/ input.downFails \in 1..Len(SelectSeq(log, IsDown))

\* C27: ConnectToNetwork attempts the teardown of the active connections
\* matching ssid before the connect command; the connect command is issued
\* whether the teardown found nothing, succeeded or failed; it has the
\* password argument exactly when the password is not empty.
C27_ConnectAfterTeardown ==
    Connected =>
        /\ Len(log) >= 2
        /\ IsShowActive(log[1])
        /\ \A k \in 1..(Len(log) - 1) : ~IsConnect(log[k])
        /\ \A k \in 2..(Len(log) - 1) : IsDown(log[k])
        /\ (~TeardownFailed /\ \E i \in DOMAIN input.active :
                                    input.active[i].name = input.ssid)
                => \E k \in 2..(Len(log) - 1) : log[k].argv[4] = input.ssid
        /\ LET connect == log[Len(log)].argv
           IN  /\ IsConnect(log[Len(log)])
               /\ SubSeq(connect, 1, 5) = <<"nmcli", "device", "wifi", "connect", input.ssid>>
               /\ input.password = "" =>
                       SubSeq(connect, 6, Len(connect)) = <<"ifname", input.interfaceName>>
               /\ input.password # "" =>
                       SubSeq(connect, 6, Len(connect))
                           = <<"password", input.password, "ifname", input.interfaceName>>

C27_Witness ==
    /\ Connected /\ input.showOK /\ input.downFails = 1 /\ TeardownFailed
    /\ Len(log) = 3 /\ IsDown(log[2]) /\ IsConnect(log[3])
    /\ input.password # "" /\ "password" \in Range(log[3].argv)
    /\ ret = Nil

\* the `connection down` commands of the call, in order
DownCommands == SelectSeq(log, IsDown)

\* the active profiles whose name is the ssid of the call
MatchingProfiles == {i \in DOMAIN input.active : input.active[i].name = input.ssid}

\* C38: disconnectExistingConnection(ssid) issues `connection down` only for
\* the active profiles whose name equals ssid, not for a profile or the header
\* line whose text merely contains ssid, and it attempts every matching
\* profile even when taking one of them down fails.
C38_TeardownExactMatch ==
    (Connected /\ input.showOK) =>
        /\ \A k \in DOMAIN DownCommands : DownCommands[k].argv[4] = input.ssid
        /\ Len(DownCommands) = Cardinality(MatchingProfiles)

----------------------------------------------------------------------------
(* C28, C29: the command runner *)

Ran == lastOp \in {"Run", "RunWithContext"}

\* the command of the call was launched and exited with its status
ExitedByItself == ProcOp("Exit", Child) \in Range(log)

\* Process.Kill was called on the child of the call
KillCalled == ProcOp("Kill", Child) \in Range(log)

\* the statement of C28, for the calls that satisfy P
ExitCodeContract(P) ==
    (Ran /\ ExitedByItself /\ P) =>
        /\ out.ExitCode = input.code
        /\ ret # Nil <=> input.code # 0
        /\ out.Stdout = input.stdout
        /\ out.Stderr = input.stderr

DoneBeforeExit ==
    /\ lastOp \in {"RunWithContext", "RunWithTimeout"}
    /\ input.found
    /\ input.doneAt < input.duration

\* C29: RunWithContext returns a non-nil error whenever its context is done
\* before the command has exited, and RunWithTimeout(t) whenever the command
\* has not exited within t (t = 0 and a context cancelled before the call
\* included); the command is terminated, not left to run to completion.
C29_ContextTerminates ==
    DoneBeforeExit =>
        /\ ret # Nil
        /\ ~ExitedByItself

----------------------------------------------------------------------------
(* C30: the order of the steps of Start *)

\* the step of Start an operation belongs to: 1 prepare interface, 2 create
\* hotspot, 3 firewall and NAT rules, 4 dnsmasq
StepNo(e) ==
    IF e.kind = "exec" /\ e.argv[1] = "systemctl" THEN 1
    ELSE IF e.kind = "exec" /\ e.argv[1] = "nmcli" /\ e.argv[2] = "device" THEN 1
    ELSE IF e.kind = "exec" /\ e.argv[1] = "nmcli" /\ e.argv[2] = "connection" THEN 2
    ELSE IF e.kind = "exec" /\ e.argv[1] = "sudo" /\ e.argv[2] \in {"ufw", "iptables-legacy"}
    THEN 3
    ELSE 4

\* the last call was a Start that got to its steps
StartRan == lastOp = "Start" /\ log # <<>>

\* C30: Start executes its steps in the order prepare interface, create
\* hotspot, install firewall and NAT rules, launch dnsmasq; when the
\* preparation, the hotspot creation or the dnsmasq launch fails, Start returns
\* an error and executes no external command of a later step.
C30_StepsInOrder ==
    StartRan =>
        /\ \A i, j \in DOMAIN log : i < j => StepNo(log[i]) <= StepNo(log[j])
        /\ StepNo(log[1]) = 1
        /\ \A k \in 2..4 : (\E i \in DOMAIN log : StepNo(log[i]) = k)
                                => \E j \in DOMAIN log : StepNo(log[j]) = k - 1
        /\ ret = Nil => \E i \in DOMAIN log : StepNo(log[i]) = 4
        /\ lastRun.prepare = "fail" =>
                (ret # Nil /\ \A i \in DOMAIN log : StepNo(log[i]) = 1)
        /\ lastRun.hotspot = "fail" =>
                (ret # Nil /\ \A i \in DOMAIN log : StepNo(log[i]) <= 2)
        /\ lastRun.dnsmasq = "fail" => ret # Nil

C30_Witness ==
    /\ StartRan /\ lastRun.prepare = "ok" /\ lastRun.hotspot = "fail"
    /\ ret # Nil /\ StepNo(log[Len(log)]) = 2 /\ Len(log) = 5


----------------------------------------------------------------------------
(* C31, C32, C39: the two backends *)

\* the config the direct-daemon service was given in the last Start
HostapdArg == HostapdConfig(arg, input.channel)

\* C31: in both backends, whether a Start passes validation depends only on the
\* config of that call, never on the config the service holds from an earlier
\* call or from its construction: a Start that is not refused as already
\* running returns a validation error exactly when its argument is invalid, so
\* a fresh instance given a valid config passes validation.
C31_ValidationByArgument ==
    lastOp = "Start" =>
        /\ ~Is(ret, ErrServiceAlreadyRunning)
                => (Is(ret, ErrInvalidAPConfig) <=> Validate(arg) # Nil)
        /\ ~Is(hostapd.ret, ErrServiceAlreadyRunning)
                => (Is(hostapd.ret, ErrInvalidAPConfig)
                        <=> HostapdValidate(HostapdArg, hostapd.version) # Nil)

\* C32: the two backends are equivalent on Start, Stop and IsRunning: after
\* every call both have returned an error of the same kind (none, already
\* running, invalid config, a failed step) and IsRunning() is the same.  The
\* direct-daemon backend is taken in its latest version.
C32_BackendsEquivalent ==
    (lastOp \in {"Start", "Stop"} /\ hostapd.version = Latest) =>
        /\ hostapd.ret.base = ret.base
        /\ hostapd.running = IsRunning

\* C39: in the direct-daemon backend (its latest version) a Start that passes
\* its two checks and meets no fault returns success with IsRunning() true
\* while the dnsmasq and the hostapd it launched are running: it does not wait
\* for them to exit.
C39_DaemonsOutliveStart ==
    (/\ lastOp = "Start"
     /\ hostapd.version = Latest
     /\ input.fault = "none"
     /\ ~Is(hostapd.ret, ErrServiceAlreadyRunning)
     /\ ~Is(hostapd.ret, ErrInvalidAPConfig))
        => /\ hostapd.ret = Nil
           /\ hostapd.running
           /\ {"dnsmasq", "hostapd"} \subseteq hostapd.live

====
